---- MODULE Spec2Model ----
(***************************************************************************)
(* Model of the spatiotemporal resolution and period selection core of     *)
(* the astrobaba backend:                                                   *)
(*   backend/app/utils/geo.py        format_offset, geocode_location,       *)
(*                                   offset_from_tzid, timezone_for_coords  *)
(*   backend/app/routers/compute.py  compute                                *)
(*   backend/app/schemas.py          BirthInput                             *)
(*   backend/app/routers/analyze.py  _current_period                        *)
(*                                                                         *)
(* The specifications of the module:                                       *)
(*   Spec         the resolvers and their two process-wide caches           *)
(*   SpecCompute  the compute handler over the resolvers                    *)
(*   SpecSel      the Period Selector applied to bounded period lists       *)
(*   SpecFmt      the Offset Formatter applied to bounded inputs            *)
(*   SpecThreads  two requests inside timezone_for_coords at once           *)
(***************************************************************************)
EXTENDS Integers, Sequences, FiniteSets, TLC

VARIABLES
    \* ---- Period Selector (analyze.py) ----
    periods,        \* the argument `periods` (a list when periods_is_list)
    periods_is_list,\* isinstance(periods, list)
    birth_dt,       \* the argument `birth_dt` (None or a datetime)
    now,            \* the argument `now`, an aware UTC instant
    sel_pc,         \* "build" while the input is assembled, "done" after the call
    sel_ret,        \* what _current_period returned
    \* ---- resolvers and compute (geo.py, compute.py) ----
    locationiq_key, \* settings.locationiq_key is set
    GEO_CACHE,      \* _GEO_CACHE: location -> (lat, lon, name)
    TZ_CACHE,       \* _TZ_CACHE: coordinate key -> (tzid, offset)
    last,           \* the last resolver call: its arguments, result and provider calls
    geo_origin,     \* per location, the value returned by the call that last wrote _GEO_CACHE
    pc,             \* position of the compute handler
    b,              \* payload.birth of the compute request in progress
    chart_calls,    \* invocations of the Astrology Compute Provider by this request
    outcome,        \* how the compute request ended
    \* ---- Offset Formatter (geo.py) ----
    fmt_seconds,    \* the argument `seconds` of format_offset
    fmt_ret,        \* what format_offset returned
    \* ---- concurrent requests in timezone_for_coords (geo.py) ----
    t_pc,           \* per request, the step of timezone_for_coords it is at
    t_arg,          \* per request, the arguments (lat, lon)
    t_ret,          \* per request, how the call ended and what it returned
    \* ---- one provider step of timezone_for_coords on its own (geo.py) ----
    st_keyed,       \* the JSON answer of the LocationIQ timezone endpoint
    st_reverse,     \* the answer of the Open-Meteo search by coordinates
    st_ret,         \* how the step ended, what it returned and the cache after it
    \* ---- the compute request in progress (compute.py) ----
    b_in,           \* payload.birth as the request carried it
    res_calls,      \* the resolvers this request invoked, in order
    \* ---- Fact Extractor, dasha part (analyze.py) ----
    f_subs,         \* per major period, its `antardasha` value
    f_now2,         \* datetime.now of the second _current_period call
    f_ret,          \* the dasha facts: what the two calls returned and what is reported
    \* ---- the same birth record resolved repeatedly (compute.py) ----
    r_world,        \* what each provider answers, the same at every request
    r_runs          \* per resolution so far: outcome, coordinates and offset

selvars == <<periods, periods_is_list, birth_dt, now, sel_pc, sel_ret>>
geovars == <<locationiq_key, GEO_CACHE, TZ_CACHE, last, geo_origin>>
cmpvars == <<pc, b, chart_calls, outcome, b_in, res_calls>>
fmtvars == <<fmt_seconds, fmt_ret>>
thrvars == <<t_pc, t_arg, t_ret>>
stepvars == <<st_keyed, st_reverse, st_ret>>
factvars == <<f_subs, f_now2, f_ret>>
repvars == <<r_world, r_runs>>
latervars == <<stepvars, factvars, repvars>>
othervars == <<fmtvars, thrvars, latervars>>
vars == <<selvars, geovars, cmpvars, fmtvars, thrvars, latervars>>

None == "None"

\* a float-or-None field
NoFloat == [has |-> FALSE, v |-> 0]
Float(x) == [has |-> TRUE, v |-> x]

\* payload.birth: the fields resolution reads and writes
BirthInput(tz, lat, lon, loc) ==
    [timezone |-> tz, latitude |-> lat, longitude |-> lon, location |-> loc]
NoBirthInput == BirthInput(None, NoFloat, NoFloat, None)

(***************************************************************************)
(* Bounds of the model.                                                    *)
(***************************************************************************)
MaxPeriods == 2     \* longest period list
MaxT == 2           \* instants are 0..MaxT
MaxDivisional == 1  \* longest payload.include_divisional
MaxHours == 100     \* offsets handed to format_offset reach MaxHours hours
MaxRuns == 2        \* resolutions of the same birth record in one process

(***************************************************************************)
(* Period Selector: analyze.py, _current_period                            *)
(***************************************************************************)

\* A value handed to datetime.fromisoformat, or a datetime object.
\*   "naive": no tzinfo, wall clock t
\*   "aware": wall clock t at UTC offset off
\*   "bad"  : a string fromisoformat rejects (ValueError)
\*   "none" : the key is missing, p.get() gives None (TypeError)
Naive(t) == [kind |-> "naive", t |-> t, off |-> 0]
Aware(t, o) == [kind |-> "aware", t |-> t, off |-> o]
BadTs == [kind |-> "bad", t |-> 0, off |-> 0]
NoTs == [kind |-> "none", t |-> 0, off |-> 0]
\* birth_dt=None
NoBirth == [kind |-> "absent", t |-> 0, off |-> 0]

\* datetime.fromisoformat(x): the exception it raises, or "ok".
FromIsoFormat(x) ==
    CASE x.kind = "bad" -> "ValueError"
      [] x.kind = "none" -> "TypeError"
      [] OTHER -> "ok"

\* s.replace(tzinfo=utc) for a naive value, s.astimezone(utc) for an aware
\* one: the absolute instant on the UTC axis.
ToUTC(x) == IF x.kind = "naive" THEN x.t ELSE x.t - x.off

\* One element of `periods`: a dict with start/end, or something without .get
Period(s, e) == [isdict |-> TRUE, start |-> s, end |-> e]
NonDict == [isdict |-> FALSE, start |-> NoTs, end |-> NoTs]

\* The body of the try block for one entry p (lines 43-64): the exception
\* raised inside it, or "ok".
TryEntry(p) ==
    IF ~p.isdict THEN "AttributeError"
    ELSE IF FromIsoFormat(p.start) # "ok" THEN FromIsoFormat(p.start)
    ELSE FromIsoFormat(p.end)

\* mutant of ExceptException: the handler is `except ValueError`
ExceptValueErrorOnly(exc) == exc = "ValueError"

\* `except Exception: continue` (line 65) catches every exception class
\* the try block can raise.
ExceptException(exc) == exc \in {"AttributeError", "TypeError", "ValueError"}

\* mutant of BdOk: a period ending exactly at birth is dropped too
BdOkStrict(p, bd) == IF bd = NoBirth THEN TRUE ELSE ToUTC(p.end) > ToUTC(bd)

\* bd_ok (lines 55-62)
BdOk(p, bd) == IF bd = NoBirth THEN TRUE ELSE ToUTC(p.end) >= ToUTC(bd)

\* The loop of lines 41-66 over periods[i..]: the list `filtered` of
\* (s, e, p), p kept as its index in `periods`; raised when an
\* exception escapes the loop.
RECURSIVE FilterFrom(_, _, _)
FilterFrom(ps, bd, i) ==
    IF i > Len(ps) THEN [raised |-> FALSE, list |-> <<>>]
    ELSE LET p == ps[i]
             exc == TryEntry(p)
             rest == FilterFrom(ps, bd, i + 1)
         IN  IF exc # "ok"
             THEN IF ExceptException(exc) THEN rest
                  ELSE [raised |-> TRUE, list |-> <<>>]
             ELSE IF BdOk(p, bd)
                  THEN [rest EXCEPT !.list =
                            <<<<ToUTC(p.start), ToUTC(p.end), i>>>> \o @]
                  ELSE rest

\* mutant of FirstContaining: the end of the interval is exclusive
RECURSIVE FirstContainingOpenEnd(_, _)
FirstContainingOpenEnd(f, n) ==
    IF f = <<>> THEN 0
    ELSE IF Head(f)[1] <= n /\ n < Head(f)[2] THEN Head(f)[3]
    ELSE FirstContainingOpenEnd(Tail(f), n)

\* for s, e, p in filtered: if s <= now <= e: return p   (lines 67-69)
\* 0 when the loop ends without returning.
RECURSIVE FirstContaining(_, _)
FirstContaining(f, n) ==
    IF f = <<>> THEN 0
    ELSE IF Head(f)[1] <= n /\ n <= Head(f)[2] THEN Head(f)[3]
    ELSE FirstContaining(Tail(f), n)

\* list.sort(key=lambda x: x[0]): stable, ascending by start (line 71)
RECURSIVE InsertByStart(_, _)
InsertByStart(x, sorted) ==
    IF sorted = <<>> THEN <<x>>
    ELSE IF x[1] < Head(sorted)[1] THEN <<x>> \o sorted
    ELSE <<Head(sorted)>> \o InsertByStart(x, Tail(sorted))

RECURSIVE SortByStart(_)
SortByStart(f) ==
    IF f = <<>> THEN <<>>
    ELSE InsertByStart(f[Len(f)], SortByStart(SubSeq(f, 1, Len(f) - 1)))

\* mutant of Fallback: the sort of line 71 is left out
FallbackUnsorted(f, ps) ==
    IF f # <<>> THEN f[1][3]
    ELSE IF ps # <<>> THEN 1 ELSE 0

\* mutant of Fallback: nothing is returned when `filtered` is empty
FallbackNoDefault(f, ps) ==
    IF f # <<>> THEN SortByStart(f)[1][3] ELSE 0

\* return filtered[0][2] if filtered else (periods[0] if periods else None)
Fallback(f, ps) ==
    IF f # <<>> THEN SortByStart(f)[1][3]
    ELSE IF ps # <<>> THEN 1 ELSE 0

\* _current_period(periods, birth_dt, now): [raised, idx]; idx = 0 is None,
\* idx = i > 0 is the object periods[i].
CurrentPeriod(islist, ps, bd, n) ==
    IF ~islist THEN [raised |-> FALSE, idx |-> 0]
    ELSE LET fl == FilterFrom(ps, bd, 1)
             hit == FirstContaining(fl.list, n)
         IN  IF fl.raised THEN [raised |-> TRUE, idx |-> 0]
             ELSE IF hit # 0 THEN [raised |-> FALSE, idx |-> hit]
             ELSE [raised |-> FALSE, idx |-> Fallback(fl.list, ps)]

\* ---- inputs of the Period Selector ----
Instants == 0..MaxT
\* well-formed timestamps: naive ones, and one aware form at offset +1
\* (wall clock t+1 at +1 is the instant t)
OkTs == {Naive(t) : t \in Instants} \cup {Aware(MaxT, 1)}
\* samples of malformed entries: unparseable start, missing end, both, non-dict
MalformedEntries ==
    {Period(BadTs, Naive(0)), Period(Naive(0), NoTs), NonDict}
Entries == {Period(s, e) : s \in OkTs, e \in OkTs} \cup MalformedEntries
BirthValues == {NoBirth} \cup {Naive(t) : t \in Instants} \cup {Aware(MaxT, 1)}

Pending == [raised |-> FALSE, idx |-> -1]

\* the arguments of one call; the resolvers and compute stay idle
SelInit ==
    /\ periods = <<>>
    /\ periods_is_list \in BOOLEAN
    /\ birth_dt \in BirthValues
    /\ now \in Instants
    /\ sel_pc = "build"
    /\ sel_ret = Pending
    /\ locationiq_key = FALSE
    /\ GEO_CACHE = <<>>
    /\ TZ_CACHE = <<>>
    /\ last = None
    /\ geo_origin = <<>>
    /\ pc = "idle"
    /\ b = NoBirthInput
    /\ chart_calls = <<>>
    /\ outcome = "none"
    /\ fmt_seconds = 0
    /\ fmt_ret = None
    /\ r_world = 0
    /\ r_runs = <<>>
    /\ f_subs = <<>>
    /\ f_now2 = 0
    /\ f_ret = 0
    /\ b_in = NoBirthInput
    /\ res_calls = <<>>
    /\ st_keyed = 0
    /\ st_reverse = 0
    /\ st_ret = 0
    /\ t_pc = <<>>
    /\ t_arg = <<>>
    /\ t_ret = <<>>

\* the caller assembles the list handed to _current_period
AddPeriod(p) ==
    /\ sel_pc = "build"
    /\ periods_is_list
    /\ Len(periods) < MaxPeriods
    /\ periods' = Append(periods, p)
    /\ UNCHANGED <<periods_is_list, birth_dt, now, sel_pc, sel_ret>>

\* mutant of Select: the fallback takes the default off the caller's list
\* with periods.pop(0)
SelectPopping ==
    /\ sel_pc = "build"
    /\ sel_ret' = CurrentPeriod(periods_is_list, periods, birth_dt, now)
    /\ sel_pc' = "done"
    /\ periods' = IF periods_is_list /\ periods # <<>>
                     /\ FilterFrom(periods, birth_dt, 1).list = <<>>
                  THEN Tail(periods) ELSE periods
    /\ UNCHANGED <<periods_is_list, birth_dt, now>>

\* one call of _current_period(periods, birth_dt=birth_dt, now=now)
Select ==
    /\ sel_pc = "build"
    /\ sel_ret' = CurrentPeriod(periods_is_list, periods, birth_dt, now)
    /\ sel_pc' = "done"
    /\ UNCHANGED <<periods, periods_is_list, birth_dt, now>>

SelNext ==
    \/ \E p \in Entries : AddPeriod(p) /\ UNCHANGED <<geovars, cmpvars, othervars>>
    \/ Select /\ UNCHANGED <<geovars, cmpvars, othervars>>

SpecSel == SelInit /\ [][SelNext]_vars

(***************************************************************************)
(* Offset Formatter: geo.py, format_offset                                 *)
(***************************************************************************)
Abs(n) == IF n >= 0 THEN n ELSE -n

\* f"{n:02d}" for n >= 0: at least two digits, zero padded
Pad2(n) == IF n < 10 THEN "0" \o ToString(n) ELSE ToString(n)

\* mutant of format_offset: the minutes are rounded to the nearest minute
format_offset_rounded(seconds) ==
    LET sign == IF seconds >= 0 THEN "+" ELSE "-"
        sec == Abs(seconds)
        hh == sec \div 3600
        mm == ((sec % 3600) + 30) \div 60
    IN  sign \o Pad2(hh) \o ":" \o Pad2(mm)

\* format_offset(seconds), lines 15-20
format_offset(seconds) ==
    LET sign == IF seconds >= 0 THEN "+" ELSE "-"
        sec == Abs(seconds)
        hh == sec \div 3600
        mm == (sec % 3600) \div 60
    IN  sign \o Pad2(hh) \o ":" \o Pad2(mm)

\* The integers handed to format_offset: whole and broken minutes, both
\* signs, up to MaxHours hours.
OffsetSeconds ==
    {sg * (h * 3600 + m * 60 + s) :
        sg \in {1, -1}, h \in 0..MaxHours, m \in {0, 30, 59}, s \in {0, 59}}

\* format_offset has not returned yet
Unformatted == None

FmtInit ==
    /\ fmt_seconds \in OffsetSeconds
    /\ fmt_ret = None
    /\ r_world = 0
    /\ r_runs = <<>>
    /\ f_subs = <<>>
    /\ f_now2 = 0
    /\ f_ret = 0
    /\ b_in = NoBirthInput
    /\ res_calls = <<>>
    /\ st_keyed = 0
    /\ st_reverse = 0
    /\ st_ret = 0
    /\ periods = <<>>
    /\ periods_is_list = TRUE
    /\ birth_dt = NoBirth
    /\ now = 0
    /\ sel_pc = "done"
    /\ sel_ret = Pending
    /\ locationiq_key = FALSE
    /\ GEO_CACHE = <<>>
    /\ TZ_CACHE = <<>>
    /\ last = None
    /\ geo_origin = <<>>
    /\ pc = "idle"
    /\ b = NoBirthInput
    /\ chart_calls = <<>>
    /\ outcome = "none"
    /\ t_pc = <<>>
    /\ t_arg = <<>>
    /\ t_ret = <<>>

\* one call format_offset(fmt_seconds)
FormatOffset ==
    /\ fmt_ret = Unformatted
    /\ fmt_ret' = format_offset(fmt_seconds)
    /\ UNCHANGED <<fmt_seconds, selvars, geovars, cmpvars, thrvars,
                   latervars>>

FmtNext == FormatOffset

SpecFmt == FmtInit /\ [][FmtNext]_vars

(***************************************************************************)
(* Python values used by the resolvers                                     *)
(***************************************************************************)
\* truthiness of a str-or-None value
Truthy(x) == x # None /\ x # ""
\* a or b, for str-or-None values
PyOr(x, y) == IF Truthy(x) THEN x ELSE y

\* an int-or-None value
NoSec == [has |-> FALSE, v |-> 0]
Sec(n) == [has |-> TRUE, v |-> n]
\* a or b, for int-or-None values (0 is falsy)
PyOrSec(x, y) == IF x.has /\ x.v # 0 THEN x ELSE y

\* The exception classes a provider block can raise; `except
\* httpx.HTTPError` catches the transport and status errors only.
ExceptHTTPError(exc) == exc = "HTTPError"

\* What a provider block raises for a response: httpx raises HTTPError on a
\* transport failure or (raise_for_status) a non-2xx status; r.json(),
\* item["lat"], float(...) and int(...) raise ValueError/KeyError on a body
\* that cannot be parsed.
Raises(resp) ==
    CASE resp.kind = "http_error" -> "HTTPError"
      [] resp.kind = "malformed" -> "ValueError"
      [] OTHER -> "ok"

(***************************************************************************)
(* Coordinates are integers in units of 1e-7 degree.                       *)
(***************************************************************************)
BoxLatMin == 60000000       \* 6.0
BoxLatMax == 375000000      \* 37.5
BoxLonMin == 680000000      \* 68.0
BoxLonMax == 980000000      \* 98.0

Delhi == <<286139000, 772090000>>       \* 28.6139, 77.2090
Paris == <<488566000, 23522000>>        \* 48.8566, 2.3522
Corner == <<60000000, 980000000>>       \* 6.0, 98.0: a corner of the box
NearCorner == <<59999999, 980000000>>   \* 5.9999999, 98.0: just outside
\* the coordinates timezone_for_coords is called with
Coords == {Delhi, Corner, NearCorner}
\* the coordinates a geocoder answers with
Places == {Delhi, Paris}

\* f"{x:.6f}" for x >= 0, as micro-degrees (no sampled value is a tie)
Round6(x) == (x + 5) \div 10
\* key = f"{lat:.6f},{lon:.6f}", line 122
CoordinateKey(lat, lon) == <<Round6(lat), Round6(lon)>>
CoordKeys == {CoordinateKey(c[1], c[2]) : c \in Coords \cup Places}

Locations == {"Delhi", "Paris"}

(***************************************************************************)
(* Geocoding Resolver: geo.py, geocode_location                            *)
(***************************************************************************)
\* the dict geocode_location returns (timezone = None: no such key), or None
GeoNone ==
    [some |-> FALSE, latitude |-> 0, longitude |-> 0,
     display_name |-> None, timezone |-> None]
GeoDict(lat, lon, name, tz) ==
    [some |-> TRUE, latitude |-> lat, longitude |-> lon,
     display_name |-> name, timezone |-> tz]

\* an entry of _GEO_CACHE: (lat, lon, name), or no entry
GeoAbsent == [present |-> FALSE, lat |-> 0, lon |-> 0, name |-> None]
GeoEntry(lat, lon, name) ==
    [present |-> TRUE, lat |-> lat, lon |-> lon, name |-> name]

\* a geocoding provider's answer
GeoResp(kind, c, name, tz) ==
    [kind |-> kind, lat |-> c[1], lon |-> c[2], name |-> name, tz |-> tz]
GeoHttpError == GeoResp("http_error", <<0, 0>>, None, None)
GeoMalformed == GeoResp("malformed", <<0, 0>>, None, None)
GeoEmpty == GeoResp("empty", <<0, 0>>, None, None)
GeoNoCall == GeoResp("nocall", <<0, 0>>, None, None)
GeoOk ==
    {GeoResp("ok", Delhi, "New Delhi, India", "Asia/Kolkata"),
     GeoResp("ok", Paris, None, "Europe/Paris")}
GeoResponses == GeoOk \cup {GeoHttpError, GeoMalformed, GeoEmpty}

\* mutant of GeoBlock: a provider that fails invalidates the cached entry
GeoBlockInvalidating(resp, location, cache, with_tz) ==
    LET exc == Raises(resp)
        dropped == [cache EXCEPT ![location] = GeoAbsent]
    IN  IF exc # "ok"
        THEN [end |-> IF ExceptHTTPError(exc) THEN "next" ELSE "raise",
              ret |-> GeoNone, cache |-> dropped]
        ELSE IF resp.kind # "ok"
        THEN [end |-> "next", ret |-> GeoNone, cache |-> cache]
        ELSE LET out == GeoDict(resp.lat, resp.lon, resp.name,
                                IF with_tz /\ Truthy(resp.tz)
                                THEN resp.tz ELSE None)
             IN  [end |-> "return", ret |-> out,
                  cache |-> [cache EXCEPT ![location] =
                      GeoEntry(out.latitude, out.longitude,
                               PyOr(out.display_name, location))]]

\* One provider block (lines 26-49, 63-78, 81-101) given the provider's
\* answer: "return" with the dict and the cache write, "raise" when an
\* exception escapes the block, "next" when the chain advances.
\* with_tz: the block copies item["timezone"] into the dict (lines 96-97).
GeoBlock(resp, location, cache, with_tz) ==
    LET exc == Raises(resp)
    IN  IF exc # "ok"
        THEN [end |-> IF ExceptHTTPError(exc) THEN "next" ELSE "raise",
              ret |-> GeoNone, cache |-> cache]
        ELSE IF resp.kind # "ok"
        THEN [end |-> "next", ret |-> GeoNone, cache |-> cache]
        ELSE LET out == GeoDict(resp.lat, resp.lon, resp.name,
                                IF with_tz /\ Truthy(resp.tz)
                                THEN resp.tz ELSE None)
             IN  [end |-> "return", ret |-> out,
                  cache |-> [cache EXCEPT ![location] =
                      GeoEntry(out.latitude, out.longitude,
                               PyOr(out.display_name, location))]]

\* lines 50-52
GeoFromCache(location, cache) ==
    GeoDict(cache[location].lat, cache[location].lon,
            cache[location].name, None)

\* a call that ends in the block of provider `by`, after the calls `calls`
GeoEnd(r, calls, by) ==
    [end |-> r.end, ret |-> r.ret, cache |-> r.cache, calls |-> calls,
     by |-> by]

\* mutant of geocode_location: the cache is read first, before the keyed
\* provider
geocode_location_cache_first(location, key, cache, rK, rA, rB) ==
    LET k == GeoBlock(rK, location, cache, FALSE)
        a == GeoBlock(rA, location, cache, FALSE)
        m == GeoBlock(rB, location, cache, TRUE)
        kc == IF key THEN <<"locationiq">> ELSE <<>>
    IN  IF cache[location].present
        THEN [end |-> "return", ret |-> GeoFromCache(location, cache),
              cache |-> cache, calls |-> <<>>, by |-> "cache"]
        ELSE IF key /\ k.end # "next"
        THEN GeoEnd(k, kc, "locationiq")
        ELSE IF a.end # "next"
        THEN GeoEnd(a, kc \o <<"nominatim">>, "nominatim")
        ELSE IF m.end # "next"
        THEN GeoEnd(m, kc \o <<"nominatim", "open-meteo">>, "open-meteo")
        ELSE [end |-> "return", ret |-> GeoNone, cache |-> cache,
              calls |-> kc \o <<"nominatim", "open-meteo">>, by |-> "none"]

\* mutant of geocode_location: the cache is read after Nominatim
geocode_location_cache_late(location, key, cache, rK, rA, rB) ==
    LET k == GeoBlock(rK, location, cache, FALSE)
        a == GeoBlock(rA, location, cache, FALSE)
        m == GeoBlock(rB, location, cache, TRUE)
        kc == IF key THEN <<"locationiq">> ELSE <<>>
    IN  IF key /\ k.end # "next"
        THEN GeoEnd(k, kc, "locationiq")
        ELSE IF a.end # "next"
        THEN GeoEnd(a, kc \o <<"nominatim">>, "nominatim")
        ELSE IF cache[location].present
        THEN [end |-> "return", ret |-> GeoFromCache(location, cache),
              cache |-> cache, calls |-> kc \o <<"nominatim">>,
              by |-> "cache"]
        ELSE IF m.end # "next"
        THEN GeoEnd(m, kc \o <<"nominatim", "open-meteo">>, "open-meteo")
        ELSE [end |-> "return", ret |-> GeoNone, cache |-> cache,
              calls |-> kc \o <<"nominatim", "open-meteo">>, by |-> "none"]

\* geocode_location(location) with the answers rK, rA, rB of LocationIQ,
\* Nominatim and Open-Meteo: how it ends, what it returns, the cache after
\* it and the providers it called, in order.
geocode_location(location, key, cache, rK, rA, rB) ==
    LET k == GeoBlock(rK, location, cache, FALSE)
        a == GeoBlock(rA, location, cache, FALSE)
        m == GeoBlock(rB, location, cache, TRUE)
        kc == IF key THEN <<"locationiq">> ELSE <<>>
    IN  IF key /\ k.end # "next"
        THEN GeoEnd(k, kc, "locationiq")
        ELSE IF cache[location].present
        THEN [end |-> "return", ret |-> GeoFromCache(location, cache),
              cache |-> cache, calls |-> kc, by |-> "cache"]
        ELSE IF a.end # "next"
        THEN GeoEnd(a, kc \o <<"nominatim">>, "nominatim")
        ELSE IF m.end # "next"
        THEN GeoEnd(m, kc \o <<"nominatim", "open-meteo">>, "open-meteo")
        ELSE [end |-> "return", ret |-> GeoNone, cache |-> cache,
              calls |-> kc \o <<"nominatim", "open-meteo">>, by |-> "none"]

(***************************************************************************)
(* Timezone Resolver: geo.py, timezone_for_coords                          *)
(***************************************************************************)
\* the dict timezone_for_coords returns, or None
TzNone == [some |-> FALSE, timeZone |-> None, offset |-> None]
TzDict(tz, off) == [some |-> TRUE, timeZone |-> tz, offset |-> off]

\* an entry of _TZ_CACHE: (tzid, offset), or no entry
TzAbsent == [present |-> FALSE, tzid |-> None, off |-> None]
TzEntry(tz, off) == [present |-> TRUE, tzid |-> tz, off |-> off]

\* The JSON object of the LocationIQ timezone endpoint.  data["timezone"]
\* is a string or an object {name, zone_name}; the other fields are
\* strings or numbers; None: the field is missing.
NoTzField == [isdict |-> FALSE, s |-> None, name |-> None, zone_name |-> None]
TzString(x) == [isdict |-> FALSE, s |-> x, name |-> None, zone_name |-> None]
TzObject(n, z) == [isdict |-> TRUE, s |-> None, name |-> n, zone_name |-> z]
KeyedData(kind, tzf, zn, tZ, uo, o, gmt, raw) ==
    [kind |-> kind, timezone |-> tzf, zone_name |-> zn, timeZone |-> tZ,
     utc_offset |-> uo, offset |-> o, gmt_offset |-> gmt, raw_offset |-> raw]
KeyedFail(kind) ==
    KeyedData(kind, NoTzField, None, None, None, None, NoSec, NoSec)
KeyedNoCall == KeyedFail("nocall")
KeyedResponses ==
    {\* {"timezone": {"name": "Asia/Kolkata"}, "utc_offset": "+05:30"}
     KeyedData("ok", TzObject("Asia/Kolkata", None), None, None,
               "+05:30", None, NoSec, NoSec),
     \* {"zone_name": "Europe/Paris", "gmt_offset": 3600}
     KeyedData("ok", NoTzField, "Europe/Paris", None,
               None, None, Sec(3600), NoSec),
     \* {"timeZone": "Europe/Paris", "gmt_offset": 0}
     KeyedData("ok", NoTzField, None, "Europe/Paris",
               None, None, Sec(0), NoSec),
     \* {"timezone": "Europe/Paris", "gmt_offset": 0, "raw_offset": 0}
     KeyedData("ok", TzString("Europe/Paris"), None, None,
               None, None, Sec(0), Sec(0)),
     \* {}
     KeyedFail("ok"),
     KeyedFail("http_error"),
     KeyedFail("malformed")}

\* lines 144-146: the zone name of the keyed answer
KeyedZone(data) ==
    LET tzf == data.timezone
    IN  IF tzf.isdict THEN PyOr(tzf.name, tzf.zone_name)
        ELSE PyOr(PyOr(tzf.s, data.zone_name), data.timeZone)

\* lines 147-152: the offset of the keyed answer
KeyedOffset(data) ==
    LET off == PyOr(data.utc_offset, data.offset)
        sec == PyOrSec(data.gmt_offset, data.raw_offset)
    IN  IF off # None THEN off
        ELSE IF sec.has THEN format_offset(sec.v)
        ELSE None

\* the outcome of one step of the chain
TzNext(cache) == [end |-> "next", ret |-> TzNone, cache |-> cache]
TzRaise(cache) == [end |-> "raise", ret |-> TzNone, cache |-> cache]
\* mutant of TzReturn: the result is returned without being cached
TzReturnUncached(key, cache, tz, off) ==
    [end |-> "return", ret |-> TzDict(tz, off), cache |-> cache]
TzReturn(key, cache, tz, off) ==
    [end |-> "return", ret |-> TzDict(tz, off),
     cache |-> [cache EXCEPT ![key] = TzEntry(tz, off)]]
TzFailed(resp, cache) ==
    IF ExceptHTTPError(Raises(resp)) THEN TzNext(cache) ELSE TzRaise(cache)

\* lines 127-157: LocationIQ
KeyedBlock(data, key, cache) ==
    IF Raises(data) # "ok" THEN TzFailed(data, cache)
    ELSE IF Truthy(KeyedZone(data)) /\ Truthy(KeyedOffset(data))
    THEN TzReturn(key, cache, KeyedZone(data), KeyedOffset(data))
    ELSE TzNext(cache)

\* the JSON object of timeapi.io: timeZone and the seconds of
\* standardUtcOffset and currentUtcOffset
TimeApiData(kind, tz, std, cur) ==
    [kind |-> kind, timeZone |-> tz, std |-> std, cur |-> cur]
TimeApiNoCall == TimeApiData("nocall", None, NoSec, NoSec)
TimeApiResponses ==
    {TimeApiData("ok", "Asia/Kolkata", Sec(19800), Sec(19800)),
     TimeApiData("ok", "Europe/Paris", NoSec, Sec(3600)),
     TimeApiData("ok", None, NoSec, NoSec),
     TimeApiData("http_error", None, NoSec, NoSec),
     TimeApiData("malformed", None, NoSec, NoSec)}

\* lines 159-179: timeapi.io, standard offset first, then current
TimeApiBlock(data, key, cache) ==
    IF Raises(data) # "ok" THEN TzFailed(data, cache)
    ELSE IF Truthy(data.timeZone) /\ data.std.has
    THEN TzReturn(key, cache, data.timeZone, format_offset(data.std.v))
    ELSE IF Truthy(data.timeZone) /\ data.cur.has
    THEN TzReturn(key, cache, data.timeZone, format_offset(data.cur.v))
    ELSE TzNext(cache)

\* the JSON object of the Open-Meteo timezone endpoint
MeteoData(kind, tz, sec) == [kind |-> kind, timezone |-> tz, sec |-> sec]
MeteoNoCall == MeteoData("nocall", None, NoSec)
MeteoResponses ==
    {MeteoData("ok", "Europe/Paris", Sec(3600)),
     MeteoData("ok", None, NoSec),
     MeteoData("http_error", None, NoSec),
     MeteoData("malformed", None, NoSec)}

\* lines 181-196: Open-Meteo timezone
MeteoBlock(data, key, cache) ==
    IF Raises(data) # "ok" THEN TzFailed(data, cache)
    ELSE IF Truthy(data.timezone) /\ data.sec.has
    THEN TzReturn(key, cache, data.timezone, format_offset(data.sec.v))
    ELSE TzNext(cache)

\* The answer of the Open-Meteo geocoding search by "lat,lon": kind
\* "non200" is a status other than 200 (no raise_for_status here), tz the
\* timezone of the first result; zi the offset ZoneInfo gives for tz now
\* (NoSec: ZoneInfo is missing or does not know tz).
ReverseData(kind, tz, zi) == [kind |-> kind, tz |-> tz, zi |-> zi]
ReverseNoCall == ReverseData("nocall", None, NoSec)
ReverseResponses ==
    {ReverseData("ok", "Asia/Kolkata", NoSec),
     ReverseData("ok", "Europe/Paris", Sec(3600)),
     ReverseData("ok", "Europe/Paris", NoSec),
     ReverseData("ok", None, NoSec),
     ReverseData("non200", None, NoSec),
     ReverseData("http_error", None, NoSec),
     ReverseData("malformed", None, NoSec)}

\* mutant of ReverseOffset: the last-resort default is +05:30
ReverseOffsetIndiaDefault(tz, zi) ==
    IF tz = "Asia/Kolkata" THEN "+05:30"
    ELSE IF zi.has THEN format_offset(zi.v)
    ELSE "+05:30"

\* lines 210-220: the offset for the advisory timezone id
ReverseOffset(tz, zi) ==
    IF tz = "Asia/Kolkata" THEN "+05:30"
    ELSE IF zi.has THEN format_offset(zi.v)
    ELSE "+00:00"

\* lines 197-224: reverse geocode
ReverseBlock(data, key, cache) ==
    IF Raises(data) # "ok" THEN TzFailed(data, cache)
    ELSE IF data.kind = "ok" /\ Truthy(data.tz)
    THEN TzReturn(key, cache, data.tz, ReverseOffset(data.tz, data.zi))
    ELSE TzNext(cache)

\* line 227: 6.0 <= lat <= 37.5 and 68.0 <= lon <= 98.0
InBox(lat, lon) ==
    /\ BoxLatMin <= lat /\ lat <= BoxLatMax
    /\ BoxLonMin <= lon /\ lon <= BoxLonMax

\* mutant of BoxBlock: the fallback answers without caching its answer
BoxBlockUncached(lat, lon, key, cache) ==
    IF InBox(lat, lon)
    THEN [end |-> "return", ret |-> TzDict("Asia/Kolkata", "+05:30"),
          cache |-> cache]
    ELSE [end |-> "return", ret |-> TzNone, cache |-> cache]

\* lines 225-233: India footprint, else None
BoxBlock(lat, lon, key, cache) ==
    IF InBox(lat, lon) THEN TzReturn(key, cache, "Asia/Kolkata", "+05:30")
    ELSE [end |-> "return", ret |-> TzNone, cache |-> cache]

\* a call that ends in step `by`, after the provider calls `calls`
TzEnd(r, calls, by) ==
    [end |-> r.end, ret |-> r.ret, cache |-> r.cache, calls |-> calls,
     by |-> by]

\* mutant of timezone_for_coords: the cache is read after the keyed
\* provider, as geocode_location does
timezone_for_coords_keyed_first(lat, lon, haskey, cache, rK, rC, rD, rR) ==
    LET key == CoordinateKey(lat, lon)
        k == KeyedBlock(rK, key, cache)
        c == TimeApiBlock(rC, key, cache)
        d == MeteoBlock(rD, key, cache)
        r == ReverseBlock(rR, key, cache)
        x == BoxBlock(lat, lon, key, cache)
        kc == IF haskey THEN <<"locationiq">> ELSE <<>>
        all == kc \o <<"timeapi", "open-meteo-tz", "open-meteo-geo">>
    IN  IF haskey /\ k.end # "next" THEN TzEnd(k, kc, "locationiq")
        ELSE IF cache[key].present
        THEN [end |-> "return",
              ret |-> TzDict(cache[key].tzid, cache[key].off),
              cache |-> cache, calls |-> kc, by |-> "cache"]
        ELSE IF c.end # "next" THEN TzEnd(c, kc \o <<"timeapi">>, "timeapi")
        ELSE IF d.end # "next"
        THEN TzEnd(d, kc \o <<"timeapi", "open-meteo-tz">>, "open-meteo-tz")
        ELSE IF r.end # "next" THEN TzEnd(r, all, "open-meteo-geo")
        ELSE TzEnd(x, all, IF x.ret.some THEN "box" ELSE "none")

\* mutant of timezone_for_coords: Open-Meteo is asked before timeapi.io
timezone_for_coords_meteo_first(lat, lon, haskey, cache, rK, rC, rD, rR) ==
    LET key == CoordinateKey(lat, lon)
        k == KeyedBlock(rK, key, cache)
        c == TimeApiBlock(rC, key, cache)
        d == MeteoBlock(rD, key, cache)
        r == ReverseBlock(rR, key, cache)
        x == BoxBlock(lat, lon, key, cache)
        kc == IF haskey THEN <<"locationiq">> ELSE <<>>
        all == kc \o <<"open-meteo-tz", "timeapi", "open-meteo-geo">>
    IN  IF cache[key].present
        THEN [end |-> "return",
              ret |-> TzDict(cache[key].tzid, cache[key].off),
              cache |-> cache, calls |-> <<>>, by |-> "cache"]
        ELSE IF haskey /\ k.end # "next" THEN TzEnd(k, kc, "locationiq")
        ELSE IF d.end # "next"
        THEN TzEnd(d, kc \o <<"open-meteo-tz">>, "open-meteo-tz")
        ELSE IF c.end # "next"
        THEN TzEnd(c, kc \o <<"open-meteo-tz", "timeapi">>, "timeapi")
        ELSE IF r.end # "next" THEN TzEnd(r, all, "open-meteo-geo")
        ELSE TzEnd(x, all, IF x.ret.some THEN "box" ELSE "none")

\* timezone_for_coords(lat, lon) with the answers rK, rC, rD, rR of
\* LocationIQ, timeapi.io, Open-Meteo timezone and Open-Meteo geocoding.
timezone_for_coords(lat, lon, haskey, cache, rK, rC, rD, rR) ==
    LET key == CoordinateKey(lat, lon)
        k == KeyedBlock(rK, key, cache)
        c == TimeApiBlock(rC, key, cache)
        d == MeteoBlock(rD, key, cache)
        r == ReverseBlock(rR, key, cache)
        x == BoxBlock(lat, lon, key, cache)
        kc == IF haskey THEN <<"locationiq">> ELSE <<>>
        all == kc \o <<"timeapi", "open-meteo-tz", "open-meteo-geo">>
    IN  IF cache[key].present
        THEN [end |-> "return",
              ret |-> TzDict(cache[key].tzid, cache[key].off),
              cache |-> cache, calls |-> <<>>, by |-> "cache"]
        ELSE IF haskey /\ k.end # "next" THEN TzEnd(k, kc, "locationiq")
        ELSE IF c.end # "next" THEN TzEnd(c, kc \o <<"timeapi">>, "timeapi")
        ELSE IF d.end # "next"
        THEN TzEnd(d, kc \o <<"timeapi", "open-meteo-tz">>, "open-meteo-tz")
        ELSE IF r.end # "next" THEN TzEnd(r, all, "open-meteo-geo")
        ELSE TzEnd(x, all, IF x.ret.some THEN "box" ELSE "none")

(***************************************************************************)
(* The resolvers as operations of one process: Spec                        *)
(***************************************************************************)
Called(r, name) == \E i \in 1..Len(r.calls) : r.calls[i] = name

\* The record kept of the last resolver call: the operation and its
\* arguments, whether the key was cached when it was called, how it ended
\* ("return" or "raise"), what it returned, the providers it called in
\* order, the step that ended it and (geocoding) the answer of the last
\* provider it called.
NoCall ==
    [op |-> "none", location |-> "", lat |-> 0, lon |-> 0, hit |-> FALSE,
     end |-> "return", geo |-> GeoNone, tz |-> TzNone, calls |-> <<>>,
     by |-> "none", resp |-> GeoNoCall]

\* the answer of the last provider a geocoding call reached
LastAnswer(rK, rA, rB) ==
    IF rB.kind # "nocall" THEN rB ELSE IF rA.kind # "nocall" THEN rA ELSE rK

Init ==
    /\ locationiq_key \in BOOLEAN
    /\ GEO_CACHE = [q \in Locations |-> GeoAbsent]
    /\ TZ_CACHE = [k \in CoordKeys |-> TzAbsent]
    /\ last = NoCall
    /\ geo_origin = [q \in Locations |-> GeoNone]
    /\ pc = "idle"
    /\ b = NoBirthInput
    /\ chart_calls = <<>>
    /\ outcome = "none"
    /\ fmt_seconds = 0
    /\ fmt_ret = None
    /\ r_world = 0
    /\ r_runs = <<>>
    /\ f_subs = <<>>
    /\ f_now2 = 0
    /\ f_ret = 0
    /\ b_in = NoBirthInput
    /\ res_calls = <<>>
    /\ st_keyed = 0
    /\ st_reverse = 0
    /\ st_ret = 0
    /\ t_pc = <<>>
    /\ t_arg = <<>>
    /\ t_ret = <<>>
    /\ periods = <<>>
    /\ periods_is_list = TRUE
    /\ birth_dt = NoBirth
    /\ now = 0
    /\ sel_pc = "done"
    /\ sel_ret = Pending

\* The answers of the providers a call reaches: a provider that is not
\* reached gives no answer.  Reached is read off the resolver itself, run
\* with the later providers failing.
GeoAnswersK(key) == IF key THEN GeoResponses ELSE {GeoNoCall}
GeoAnswersA(q, key, cache, rK) ==
    IF Called(geocode_location(q, key, cache, rK, GeoHttpError, GeoHttpError),
              "nominatim")
    THEN GeoResponses ELSE {GeoNoCall}
GeoAnswersB(q, key, cache, rK, rA) ==
    IF Called(geocode_location(q, key, cache, rK, rA, GeoHttpError),
              "open-meteo")
    THEN GeoResponses ELSE {GeoNoCall}

\* one call geocode_location(q)
GeocodeCall(q) ==
    \E rK \in GeoAnswersK(locationiq_key) :
    \E rA \in GeoAnswersA(q, locationiq_key, GEO_CACHE, rK) :
    \E rB \in GeoAnswersB(q, locationiq_key, GEO_CACHE, rK, rA) :
    \E res \in {geocode_location(q, locationiq_key, GEO_CACHE, rK, rA, rB)} :
            /\ GEO_CACHE' = res.cache
            /\ last' = [op |-> "geocode", location |-> q, lat |-> 0,
                        lon |-> 0, hit |-> GEO_CACHE[q].present,
                        end |-> res.end, geo |-> res.ret, tz |-> TzNone,
                        calls |-> res.calls, by |-> res.by,
                        resp |-> LastAnswer(rK, rA, rB)]
            /\ geo_origin' =
                 IF res.end = "return" /\ res.by \notin {"cache", "none"}
                 THEN [geo_origin EXCEPT ![q] = res.ret]
                 ELSE geo_origin
            /\ UNCHANGED <<locationiq_key, TZ_CACHE>>

TzAnswersK(lat, lon, key, cache) ==
    IF Called(timezone_for_coords(lat, lon, key, cache,
           KeyedFail("http_error"), TimeApiNoCall, MeteoNoCall,
           ReverseNoCall), "locationiq")
    THEN KeyedResponses ELSE {KeyedNoCall}
TzAnswersC(lat, lon, key, cache, rK) ==
    IF Called(timezone_for_coords(lat, lon, key, cache, rK, TimeApiNoCall,
           MeteoNoCall, ReverseNoCall), "timeapi")
    THEN TimeApiResponses ELSE {TimeApiNoCall}
TzAnswersD(lat, lon, key, cache, rK, rC) ==
    IF Called(timezone_for_coords(lat, lon, key, cache, rK, rC,
           MeteoNoCall, ReverseNoCall), "open-meteo-tz")
    THEN MeteoResponses ELSE {MeteoNoCall}
TzAnswersR(lat, lon, key, cache, rK, rC, rD) ==
    IF Called(timezone_for_coords(lat, lon, key, cache, rK, rC, rD,
           ReverseNoCall), "open-meteo-geo")
    THEN ReverseResponses ELSE {ReverseNoCall}

\* one call timezone_for_coords(c[1], c[2])
TimezoneCall(c) ==
    \E rK \in TzAnswersK(c[1], c[2], locationiq_key, TZ_CACHE) :
    \E rC \in TzAnswersC(c[1], c[2], locationiq_key, TZ_CACHE, rK) :
    \E rD \in TzAnswersD(c[1], c[2], locationiq_key, TZ_CACHE, rK, rC) :
    \E rR \in TzAnswersR(c[1], c[2], locationiq_key, TZ_CACHE, rK, rC, rD) :
    \E res \in {timezone_for_coords(c[1], c[2], locationiq_key, TZ_CACHE,
                                     rK, rC, rD, rR)} :
            /\ TZ_CACHE' = res.cache
            /\ last' = [op |-> "timezone", location |-> "", lat |-> c[1],
                        lon |-> c[2],
                        hit |-> TZ_CACHE[CoordinateKey(c[1], c[2])].present,
                        end |-> res.end, geo |-> GeoNone, tz |-> res.ret,
                        calls |-> res.calls, by |-> res.by,
                        resp |-> GeoNoCall]
            /\ UNCHANGED <<locationiq_key, GEO_CACHE, geo_origin>>

Next ==
    \/ \E q \in Locations : GeocodeCall(q) /\ UNCHANGED <<selvars, cmpvars, othervars>>
    \/ \E c \in Coords : TimezoneCall(c) /\ UNCHANGED <<selvars, cmpvars, othervars>>

Spec == Init /\ [][Next]_vars

(***************************************************************************)
(* compute: compute.py lines 14-95, schemas.py BirthInput                  *)
(***************************************************************************)
\* the birth records a request may carry
BirthInputs ==
    {BirthInput(tz, c[1], c[2], loc) :
        tz \in {None, "+05:30"},
        c \in {<<NoFloat, NoFloat>>, <<Float(Delhi[1]), NoFloat>>,
               <<NoFloat, Float(Delhi[2])>>,
               <<Float(Delhi[1]), Float(Delhi[2])>>,
               <<Float(Paris[1]), Float(Paris[2])>>},
        loc \in {None, "Delhi"}}

\* mutant of coordinates: the None check of lines 24-25 is left out
coordinates_unchecked(x) ==
    [raised |-> FALSE, lat |-> x.latitude, lon |-> x.longitude]

\* BirthInput.coordinates(), schemas.py lines 23-26
coordinates(x) ==
    [raised |-> ~x.latitude.has \/ ~x.longitude.has,
     lat |-> x.latitude, lon |-> x.longitude]

\* BirthInput.iso_datetime(), schemas.py lines 17-21
iso_datetime(x) == [raised |-> ~Truthy(x.timezone), timezone |-> x.timezone]

\* offset_from_tzid(date, time, tzid), geo.py lines 105-118; z is what the
\* time-zone database gives for tzid at the local birth date and time
\* (NoSec: ZoneInfo is missing, tzid unknown or the date/time unparseable)
offset_from_tzid(tzid, z) == IF z.has THEN format_offset(z.v) ELSE None
ZoneAnswers(tzid) ==
    {NoSec} \cup (IF tzid = "Asia/Kolkata" THEN {Sec(19800)}
                  ELSE {Sec(3600), Sec(7200)})

\* One provider.<method>(b.coordinates(), b.iso_datetime(), ...): the
\* arguments are evaluated first; the call is made only when neither
\* raises.  with_iso: the method takes b.iso_datetime().
ChartCall(method, x, with_iso) ==
    LET c == coordinates(x)
        t == iso_datetime(x)
    IN  IF c.raised \/ (with_iso /\ t.raised)
        THEN [raised |-> TRUE, calls |-> <<>>]
        ELSE [raised |-> FALSE,
              calls |-> <<[method |-> method, lat |-> c.lat, lon |-> c.lon,
                           timezone |-> x.timezone]>>]

\* a request arrives (line 15-17)
ComputeBegin(b0) ==
    /\ pc = "idle"
    /\ pc' = "geocode"
    /\ b' = b0
    /\ b_in' = b0
    /\ res_calls' = <<>>
    /\ chart_calls' = <<>>
    /\ outcome' = "running"
    /\ UNCHANGED geovars

\* mutant of ComputeGeocode: a geocoder that finds nothing does not end the
\* request, which goes on to the timezone step
ComputeGeocodeLenient ==
    /\ pc = "geocode"
    /\ IF (~b.latitude.has \/ ~b.longitude.has) /\ Truthy(b.location)
       THEN /\ GeocodeCall(b.location)
            /\ res_calls' = Append(res_calls, "geocode")
            /\ \E z \in (IF last'.end = "return" /\ last'.geo.some
                            /\ ~Truthy(b.timezone)
                            /\ Truthy(last'.geo.timezone)
                         THEN ZoneAnswers(last'.geo.timezone) ELSE {NoSec}) :
                 LET geo == last'.geo
                     off == offset_from_tzid(geo.timezone, z)
                 IN  IF last'.end = "raise"
                     THEN /\ outcome' = "400 Location resolution failed"
                          /\ pc' = "idle"
                          /\ b' = b
                     ELSE IF ~geo.some
                     THEN /\ outcome' = outcome
                          /\ pc' = "timezone"
                          /\ b' = b
                     ELSE /\ outcome' = outcome
                          /\ pc' = "timezone"
                          /\ b' = [b EXCEPT
                                !.latitude = Float(geo.latitude),
                                !.longitude = Float(geo.longitude),
                                !.timezone =
                                    IF ~Truthy(b.timezone)
                                       /\ Truthy(geo.timezone) /\ Truthy(off)
                                    THEN off ELSE @]
       ELSE /\ pc' = "timezone"
            /\ UNCHANGED <<geovars, b, outcome, res_calls>>
    /\ UNCHANGED <<chart_calls, b_in>>

\* lines 20-32 (and the handlers of lines 41-44)
ComputeGeocode ==
    /\ pc = "geocode"
    /\ IF (~b.latitude.has \/ ~b.longitude.has) /\ Truthy(b.location)
       THEN /\ GeocodeCall(b.location)
            /\ res_calls' = Append(res_calls, "geocode")
            /\ \E z \in (IF last'.end = "return" /\ last'.geo.some
                            /\ ~Truthy(b.timezone)
                            /\ Truthy(last'.geo.timezone)
                         THEN ZoneAnswers(last'.geo.timezone) ELSE {NoSec}) :
                 LET geo == last'.geo
                     off == offset_from_tzid(geo.timezone, z)
                 IN  IF last'.end = "raise"
                     THEN /\ outcome' = "400 Location resolution failed"
                          /\ pc' = "idle"
                          /\ b' = b
                     ELSE IF ~geo.some
                     THEN /\ outcome' = "400 Could not geocode location"
                          /\ pc' = "idle"
                          /\ b' = b
                     ELSE /\ outcome' = outcome
                          /\ pc' = "timezone"
                          /\ b' = [b EXCEPT
                                !.latitude = Float(geo.latitude),
                                !.longitude = Float(geo.longitude),
                                !.timezone =
                                    IF ~Truthy(b.timezone)
                                       /\ Truthy(geo.timezone) /\ Truthy(off)
                                    THEN off ELSE @]
       ELSE /\ pc' = "timezone"
            /\ UNCHANGED <<geovars, b, outcome, res_calls>>
    /\ UNCHANGED <<chart_calls, b_in>>

\* mutant of ComputeTimezone: the Timezone Resolver is asked whenever the
\* coordinates are known, an offset being present or not
ComputeTimezoneAlways ==
    /\ pc = "timezone"
    /\ IF b.latitude.has /\ b.longitude.has
       THEN /\ TimezoneCall(<<b.latitude.v, b.longitude.v>>)
            /\ res_calls' = Append(res_calls, "timezone")
            /\ IF last'.end = "raise"
               THEN /\ outcome' = "400 Location resolution failed"
                    /\ pc' = "idle"
                    /\ b' = b
               ELSE IF last'.tz.some /\ Truthy(last'.tz.offset)
               THEN /\ b' = [b EXCEPT !.timezone = last'.tz.offset]
                    /\ pc' = "kundli"
                    /\ outcome' = outcome
               ELSE /\ outcome' = "400 timezone_unresolved"
                    /\ pc' = "idle"
                    /\ b' = b
       ELSE /\ IF ~Truthy(b.timezone)
               THEN outcome' = "400 timezone_unresolved" /\ pc' = "idle"
               ELSE outcome' = outcome /\ pc' = "kundli"
            /\ UNCHANGED <<geovars, b, res_calls>>
    /\ UNCHANGED <<chart_calls, b_in>>

\* lines 33-40 (and the handlers of lines 41-44)
ComputeTimezone ==
    /\ pc = "timezone"
    /\ IF ~Truthy(b.timezone) /\ b.latitude.has /\ b.longitude.has
       THEN /\ TimezoneCall(<<b.latitude.v, b.longitude.v>>)
            /\ res_calls' = Append(res_calls, "timezone")
            /\ IF last'.end = "raise"
               THEN /\ outcome' = "400 Location resolution failed"
                    /\ pc' = "idle"
                    /\ b' = b
               ELSE IF last'.tz.some /\ Truthy(last'.tz.offset)
               THEN /\ b' = [b EXCEPT !.timezone = last'.tz.offset]
                    /\ pc' = "kundli"
                    /\ outcome' = outcome
               ELSE /\ outcome' = "400 timezone_unresolved"
                    /\ pc' = "idle"
                    /\ b' = b
       ELSE /\ IF ~Truthy(b.timezone)
               THEN outcome' = "400 timezone_unresolved" /\ pc' = "idle"
               ELSE outcome' = outcome /\ pc' = "kundli"
            /\ UNCHANGED <<geovars, b, res_calls>>
    /\ UNCHANGED <<chart_calls, b_in>>

\* lines 45-59: kundli_advanced, on any exception kundli_basic; adv and
\* basic are how the Astrology Compute Provider answers
ComputeKundli(adv, basic) ==
    /\ pc = "kundli"
    /\ LET a == ChartCall("kundli_advanced", b, TRUE)
           k == ChartCall("kundli_basic", b, TRUE)
       IN  IF ~a.raised /\ adv = "ok"
           THEN /\ chart_calls' = chart_calls \o a.calls
                /\ pc' = "divisional"
                /\ outcome' = outcome
           ELSE IF ~k.raised /\ basic = "ok"
           THEN /\ chart_calls' = chart_calls \o a.calls \o k.calls
                /\ pc' = "divisional"
                /\ outcome' = outcome
           ELSE /\ chart_calls' = chart_calls \o a.calls \o k.calls
                /\ pc' = "idle"
                /\ outcome' = IF k.raised THEN "500 ValueError"
                              ELSE "500 provider error"
    /\ UNCHANGED <<geovars, b, b_in, res_calls>>

\* n calls provider.divisional(...), each in its own try (lines 61-67)
RECURSIVE DivisionalCalls(_, _)
DivisionalCalls(x, n) ==
    IF n = 0 THEN <<>>
    ELSE ChartCall("divisional", x, TRUE).calls \o DivisionalCalls(x, n - 1)

\* lines 61-95: the divisional charts, the transits and the response
ComputeFinish(n, include_transits) ==
    /\ pc = "divisional"
    /\ chart_calls' = chart_calls \o DivisionalCalls(b, n) \o
           (IF include_transits
            THEN ChartCall("transit_planet_position", b, FALSE).calls
            ELSE <<>>)
    /\ outcome' = IF iso_datetime(b).raised THEN "500 ValueError" ELSE "200"
    /\ pc' = "idle"
    /\ UNCHANGED <<geovars, b, b_in, res_calls>>

NextCompute ==
    \/ \E b0 \in BirthInputs : ComputeBegin(b0) /\ UNCHANGED <<selvars, othervars>>
    \/ ComputeGeocode /\ UNCHANGED <<selvars, othervars>>
    \/ ComputeTimezone /\ UNCHANGED <<selvars, othervars>>
    \/ \E adv \in {"ok", "error"}, basic \in {"ok", "error"} :
           ComputeKundli(adv, basic) /\ UNCHANGED <<selvars, othervars>>
    \/ \E n \in 0..MaxDivisional, t \in BOOLEAN :
           ComputeFinish(n, t) /\ UNCHANGED <<selvars, othervars>>

\* a process serving /compute requests one after the other
SpecCompute == Init /\ [][NextCompute]_vars


(***************************************************************************)
(* Period Selector: what the claims speak about, stated on the input       *)
(* itself (not on the selector's intermediate list).                       *)
(***************************************************************************)
SelDone == sel_pc = "done" /\ periods_is_list
Idx == 1..Len(periods)
Returned(i) == sel_ret = [raised |-> FALSE, idx |-> i]
ReturnedNothing == Returned(0)

\* both start and end of entry i can be read as timestamps
WellFormed(i) ==
    /\ periods[i].isdict
    /\ periods[i].start.kind \in {"naive", "aware"}
    /\ periods[i].end.kind \in {"naive", "aware"}
StartOf(i) == ToUTC(periods[i].start)
EndOf(i) == ToUTC(periods[i].end)
BirthGiven == birth_dt # NoBirth
\* entry i ended strictly before the birth instant
PreBirth(i) == BirthGiven /\ EndOf(i) < ToUTC(birth_dt)
\* entry i survives normalization and the birth-instant filter
Survives(i) == WellFormed(i) /\ ~PreBirth(i)
Survivors == {i \in Idx : Survives(i)}
\* the reference instant lies in [start, end] of entry i, ends included
Contains(i) == StartOf(i) <= now /\ now <= EndOf(i)
Containing == {i \in Survivors : Contains(i)}

\* C2: the selector returns nothing for an empty list, and returns nothing
\* (without raising) for a list whose only entry has an unparseable or
\* missing start/end.
C2_EmptyOrMalformedGivesNothing ==
    (SelDone /\ (periods = <<>> \/ (Len(periods) = 1 /\ ~WellFormed(1))))
        => ReturnedNothing

\* C3: among the survivors the selector returns the first one, in input
\* order, whose interval [start, end] contains the reference instant, both
\* ends included.
C3_FirstContainingInOrder ==
    SelDone =>
        \A i \in Containing :
            (\A j \in Containing : i <= j) => Returned(i)

\* C3 witness: the reference instant is the shared boundary of two adjacent
\* surviving periods and the one listed first is returned.
C3_Witness ==
    /\ SelDone /\ Len(periods) = 2
    /\ Survivors = {1, 2}
    /\ StartOf(1) < EndOf(1) /\ EndOf(1) = StartOf(2) /\ StartOf(2) < EndOf(2)
    /\ now = EndOf(1)
    /\ Returned(1)

\* C4: when no survivor contains the reference instant, the selector
\* returns a survivor with the smallest start; it does not report absence.
C4_FallbackEarliestStart ==
    (SelDone /\ Survivors # {} /\ Containing = {}) =>
        \E i \in Survivors :
            /\ Returned(i)
            /\ \A j \in Survivors : StartOf(i) <= StartOf(j)

\* C4 witness: the reference instant lies after every interval and the
\* returned period is the earliest one although it is listed second.
C4_Witness ==
    /\ SelDone /\ Len(periods) = 2
    /\ Survivors = {1, 2}
    /\ EndOf(1) < now /\ EndOf(2) < now
    /\ StartOf(2) < StartOf(1)
    /\ Returned(2)

\* C5 as stated: with a birth instant given, a period whose end is strictly
\* before the birth instant is never returned, also when the reference
\* instant lies inside it.
C5_PreBirthNeverReturned ==
    SelDone =>
        \A i \in Idx : (WellFormed(i) /\ PreBirth(i)) => ~Returned(i)

\* C5 amended: provided at least one period survives the filter, the
\* returned period is a survivor (so no pre-birth period is returned, also
\* when the reference instant lies inside it), and a period whose end equals
\* the birth instant is among the survivors and is returned when it is the
\* first survivor containing the reference instant.
C5_PreBirthExcludedWhenSurvivor ==
    (SelDone /\ BirthGiven /\ Survivors # {}) =>
        /\ \E i \in Survivors : Returned(i)
        /\ \A i \in Idx :
              (/\ WellFormed(i) /\ EndOf(i) = ToUTC(birth_dt) /\ Contains(i)
               /\ \A j \in Containing : i <= j) => Returned(i)

\* C5 witness: the first period ends before birth and contains the
\* reference instant, the second survives, and the second is returned.
C5_Witness ==
    /\ SelDone /\ Len(periods) = 2 /\ BirthGiven
    /\ WellFormed(1) /\ PreBirth(1) /\ Contains(1)
    /\ Survives(2)
    /\ Returned(2)

(***************************************************************************)
(* Resolvers: what the claims speak about                                  *)
(***************************************************************************)
GeoProviders == {"locationiq", "nominatim", "open-meteo"}
TzProviders == {"locationiq", "timeapi", "open-meteo-tz", "open-meteo-geo"}
GeoCalled == last.op = "geocode"
TzCalled == last.op = "timezone"
\* the call ended with the answer of a provider
ProviderSucceeded(ps) == last.end = "return" /\ last.by \in ps
\* every provider the call reached failed (transport or status error,
\* unparseable answer) or answered with nothing usable
AllProvidersFailed(ps) == ~ProviderSucceeded(ps)
LastKey == CoordinateKey(last.lat, last.lon)

\* C6: for coordinates inside the box 6.0..37.5 by 68.0..98.0 (bounds
\* included) that are not cached, when every network provider fails,
\* timezone_for_coords returns Asia/Kolkata, +05:30.
C6_BoxFallbackWhenAllFail ==
    (/\ TzCalled /\ ~last.hit
     /\ InBox(last.lat, last.lon)
     /\ AllProvidersFailed(TzProviders))
        => /\ last.end = "return"
           /\ last.tz = TzDict("Asia/Kolkata", "+05:30")

\* The same with failures limited to what `except httpx.HTTPError`
\* handles (transport and status errors) and to answers without usable
\* fields: then nothing is raised and the box fallback answers.
BoxFallbackWhenNoneRaises ==
    (/\ TzCalled /\ ~last.hit
     /\ InBox(last.lat, last.lon)
     /\ AllProvidersFailed(TzProviders)
     /\ last.end = "return")
        => last.tz = TzDict("Asia/Kolkata", "+05:30")

\* C7: with no keyed provider configured and the query already cached,
\* geocode_location calls no provider and returns the GeoResult the original
\* resolution returned: same latitude, longitude, display name and advisory
\* timezone id.
C7_CachedResultUnchanged ==
    (GeoCalled /\ ~locationiq_key /\ last.hit)
        => /\ last.calls = <<>>
           /\ last.end = "return"
           /\ last.geo = geo_origin[last.location]

\* C8: when the first provider tried fails and the second succeeds, the
\* result is the second provider's answer, and the next call with the same
\* query returns that result from the cache without calling that provider.
\* Stated for a process without a keyed provider, where the two providers
\* are Nominatim and Open-Meteo and nothing but the cache can answer the
\* second call.
FirstFailedSecondSucceeded ==
    /\ GeoCalled /\ last.end = "return" /\ ~locationiq_key
    /\ Len(last.calls) = 2 /\ last.by = last.calls[2]
C8_SecondProviderThenCache ==
    [][(FirstFailedSecondSucceeded
        /\ last'.op = "geocode" /\ last'.location = last.location)
       => /\ last.geo.latitude = last.resp.lat
          /\ last.geo.longitude = last.resp.lon
          /\ last.geo.display_name = last.resp.name
          /\ last'.end = "return"
          /\ last'.by = "cache"
          /\ last'.geo = last.geo
          /\ \A i \in 1..Len(last'.calls) : last'.calls[i] # last.by]_vars

\* C9: timezone_for_coords reads the cache under the coordinate key before
\* any network call: when the key is cached it returns the cached timezone
\* id and offset and calls no provider, with or without a keyed provider.
C9_TzCacheBeforeNetwork ==
    (TzCalled /\ last.hit)
        => /\ last.calls = <<>>
           /\ last.end = "return"
           /\ last.tz = TzDict(TZ_CACHE[LastKey].tzid, TZ_CACHE[LastKey].off)

\* C9 witness: a call with a keyed provider configured is served from the
\* cache.
C9_Witness ==
    /\ TzCalled /\ last.hit /\ locationiq_key
    /\ last.tz.some /\ last.calls = <<>>

\* C10: geocode_location returns None and raises nothing whenever the query
\* is not cached and every provider attempted fails or returns an empty
\* result set.
C10_AllFailGivesNotFound ==
    (GeoCalled /\ ~last.hit /\ AllProvidersFailed(GeoProviders))
        => /\ last.end = "return"
           /\ ~last.geo.some

(***************************************************************************)
(* compute: what the claims speak about                                    *)
(***************************************************************************)
\* C1: the Astrology Compute Provider is never invoked for a birth record
\* whose offset is absent or whose latitude or longitude is absent.
C1_ChartOnlyForResolvedBirth ==
    \A i \in 1..Len(chart_calls) :
        /\ Truthy(chart_calls[i].timezone)
        /\ chart_calls[i].lat.has
        /\ chart_calls[i].lon.has

\* C1 witness: a request that supplied an offset but no latitude went
\* through resolution and ended, in the chart phase, without any invocation
\* of the provider.
C1_Witness ==
    /\ pc = "idle" /\ outcome = "500 ValueError"
    /\ Truthy(b.timezone) /\ ~b.latitude.has
    /\ chart_calls = <<>>

\* C11: a provider whose answer cannot be parsed counts as a failed
\* provider: no call of geocode_location or timezone_for_coords ends with an
\* exception, and a geocoding call whose last provider gave an unparseable
\* answer went on past it to the end of the chain.
C11_ParseFailureAdvances ==
    /\ last.end = "return"
    /\ (GeoCalled /\ last.resp.kind = "malformed") => last.by = "none"

(***************************************************************************)
(* Offset Formatter: what the claims speak about                           *)
(***************************************************************************)
FmtDone == fmt_ret # None
DigitChars == <<"0", "1", "2", "3", "4", "5", "6", "7", "8", "9">>
DigitChar(d) == DigitChars[d + 1]
DigitSet == {DigitChars[i] : i \in 1..10}
\* the strings made of a sign, two digits, a colon and two digits
OffsetShape ==
    {sg \o d1 \o d2 \o ":" \o d3 \o d4 :
        sg \in {"+", "-"}, d1 \in DigitSet, d2 \in DigitSet,
        d3 \in DigitSet, d4 \in DigitSet}

\* C12: for every integer s, format_offset(s) is a sign character followed
\* by exactly two digits, a colon and exactly two digits.
C12_OffsetShape == FmtDone => fmt_ret \in OffsetShape

\* the decimal digits of n >= 0, at least two of them
RECURSIVE Decimal(_)
Decimal(n) ==
    IF n < 10 THEN DigitChar(n) ELSE Decimal(n \div 10) \o DigitChar(n % 10)
TwoDigits(n) == IF n < 10 THEN "0" \o Decimal(n) ELSE Decimal(n)

\* C13: format_offset(s) has sign '+' when s >= 0 and '-' otherwise, hours
\* |s| div 3600 and minutes (|s| mod 3600) div 60, leftover seconds dropped;
\* 19800 gives +05:30, -18000 gives -05:00 and 0 gives +00:00.
C13_SignHoursMinutes ==
    FmtDone =>
        LET a == IF fmt_seconds >= 0 THEN fmt_seconds ELSE 0 - fmt_seconds
        IN  /\ fmt_ret = (IF fmt_seconds >= 0 THEN "+" ELSE "-")
                         \o TwoDigits(a \div 3600) \o ":"
                         \o TwoDigits((a % 3600) \div 60)
            /\ fmt_seconds = 19800 => fmt_ret = "+05:30"
            /\ fmt_seconds = -18000 => fmt_ret = "-05:00"
            /\ fmt_seconds = 0 => fmt_ret = "+00:00"

\* C13 witness: 59 minutes and 59 seconds west of five hours are formatted
\* with the seconds dropped, not rounded up to the next hour or minute.
C13_Witness == fmt_seconds = -21599 /\ fmt_ret = "-05:59"

\* C14 as stated: once a cache holds a value for a key, no later call of
\* geocode_location or timezone_for_coords changes the value stored under
\* that key, with or without a keyed provider.
C14_CacheValueNeverChanges ==
    [][/\ \A q \in Locations :
            GEO_CACHE[q].present => GEO_CACHE'[q] = GEO_CACHE[q]
       /\ \A k \in CoordKeys :
            TZ_CACHE[k].present => TZ_CACHE'[k] = TZ_CACHE[k]]_vars

\* C14 amended: a value held by the timezone cache never changes; a value
\* held by the geocoding cache changes only when a keyed provider is
\* configured and a call for that query is answered by the keyed provider.
C14_CacheValueStableButKeyedRefresh ==
    [][/\ \A q \in Locations :
            (GEO_CACHE[q].present /\ GEO_CACHE'[q] # GEO_CACHE[q])
                => /\ locationiq_key
                   /\ last'.op = "geocode" /\ last'.location = q
                   /\ last'.end = "return" /\ last'.by = "locationiq"
                   /\ GEO_CACHE'[q].present
       /\ \A k \in CoordKeys :
            TZ_CACHE[k].present => TZ_CACHE'[k] = TZ_CACHE[k]]_vars

\* C14 witness: with a keyed provider configured, a query that was cached
\* has been answered again by the keyed provider with other coordinates
\* than Nominatim or Open-Meteo would have stored, while a timezone entry is
\* held as well.
C14_Witness ==
    /\ GeoCalled /\ locationiq_key /\ last.hit
    /\ last.by = "locationiq" /\ last.end = "return"
    /\ GEO_CACHE[last.location].lat = Paris[1]
    /\ last.location = "Delhi"
    /\ \E k \in CoordKeys : TZ_CACHE[k].present

\* C15: no cache entry is ever evicted or invalidated: a key present in the
\* geocoding cache or in the timezone cache stays present after every
\* resolver call, whether the call succeeded, found nothing or raised.
C15_NoEviction ==
    [][/\ \A q \in Locations : GEO_CACHE[q].present => GEO_CACHE'[q].present
       /\ \A k \in CoordKeys : TZ_CACHE[k].present => TZ_CACHE'[k].present]_vars

\* C15 witness: with a keyed provider configured, a call for a cached query
\* ended with an exception out of the keyed provider's block, and the entry
\* is still in the cache.
C15_Witness ==
    /\ GeoCalled /\ locationiq_key /\ last.hit
    /\ last.end = "raise" /\ last.by = "locationiq"
    /\ GEO_CACHE[last.location].present

(***************************************************************************)
(* compute: resolution failures                                            *)
(***************************************************************************)
ResolutionFailures ==
    {"400 Location resolution failed", "400 Could not geocode location",
     "400 timezone_unresolved"}

\* C16: a request whose birth record has an offset but neither a location
\* text nor both coordinates ends with a resolution failure raised in the
\* resolution phase, and never enters the chart-building phase.
C16_MissingCoordinatesFailInResolution ==
    (/\ outcome # "none"
     /\ Truthy(b.timezone) /\ ~Truthy(b.location)
     /\ (~b.latitude.has \/ ~b.longitude.has))
        => /\ pc \notin {"kundli", "divisional"}
           /\ pc = "idle" => outcome \in ResolutionFailures

(***************************************************************************)
(* Two requests inside timezone_for_coords at once: SpecThreads            *)
(*                                                                         *)
(* FastAPI runs the synchronous handlers on a thread pool, so two calls of *)
(* timezone_for_coords interleave.  A call touches the shared _TZ_CACHE at  *)
(* line 123-124 (membership test and read) and at the single assignment of *)
(* a complete (tzid, offset) tuple that ends a successful step; the HTTP    *)
(* request of a step reads no shared state, so a step is one action taken   *)
(* at the moment of its assignment.                                        *)
(***************************************************************************)
Threads == {1, 2}
Running == [end |-> "running", ret |-> TzNone, by |-> "none"]
ThreadKey(t) == CoordinateKey(t_arg[t][1], t_arg[t][2])

ThrInit ==
    /\ locationiq_key \in BOOLEAN
    /\ GEO_CACHE = [q \in Locations |-> GeoAbsent]
    /\ TZ_CACHE = [k \in CoordKeys |-> TzAbsent]
    /\ t_pc = [t \in Threads |-> "check"]
    /\ t_arg \in [Threads -> Coords]
    /\ t_ret = [t \in Threads |-> Running]
    /\ last = NoCall
    /\ geo_origin = [q \in Locations |-> GeoNone]
    /\ pc = "idle"
    /\ b = NoBirthInput
    /\ chart_calls = <<>>
    /\ outcome = "none"
    /\ periods = <<>>
    /\ periods_is_list = TRUE
    /\ birth_dt = NoBirth
    /\ now = 0
    /\ sel_pc = "done"
    /\ sel_ret = Pending
    /\ fmt_seconds = 0
    /\ fmt_ret = None
    /\ r_world = 0
    /\ r_runs = <<>>
    /\ f_subs = <<>>
    /\ f_now2 = 0
    /\ f_ret = 0
    /\ b_in = NoBirthInput
    /\ res_calls = <<>>
    /\ st_keyed = 0
    /\ st_reverse = 0
    /\ st_ret = 0

\* request t ends its call in step `by`
ThrFinish(t, r, by) ==
    /\ t_pc' = [t_pc EXCEPT ![t] = "done"]
    /\ t_ret' = [t_ret EXCEPT ![t] = [end |-> r.end, ret |-> r.ret, by |-> by]]
    /\ TZ_CACHE' = r.cache

\* request t goes on to step `next`
ThrAdvance(t, next) ==
    /\ t_pc' = [t_pc EXCEPT ![t] = next]
    /\ UNCHANGED <<t_ret, TZ_CACHE>>

\* lines 122-125: the cache check
ThrCheck(t) ==
    /\ t_pc[t] = "check"
    /\ LET key == ThreadKey(t)
       IN  IF TZ_CACHE[key].present
           THEN ThrFinish(t, [end |-> "return",
                              ret |-> TzDict(TZ_CACHE[key].tzid,
                                             TZ_CACHE[key].off),
                              cache |-> TZ_CACHE], "cache")
           ELSE ThrAdvance(t, IF locationiq_key THEN "locationiq"
                              ELSE "timeapi")

\* one provider step (lines 127-157, 159-179, 181-196, 197-224) with the
\* outcome r of its block
ThrProvider(t, step, r, next) ==
    /\ t_pc[t] = step
    /\ IF r.end = "next" THEN ThrAdvance(t, next) ELSE ThrFinish(t, r, step)

ThrKeyed(t, rK) ==
    ThrProvider(t, "locationiq", KeyedBlock(rK, ThreadKey(t), TZ_CACHE),
                "timeapi")
ThrTimeApi(t, rC) ==
    ThrProvider(t, "timeapi", TimeApiBlock(rC, ThreadKey(t), TZ_CACHE),
                "open-meteo-tz")
ThrMeteo(t, rD) ==
    ThrProvider(t, "open-meteo-tz", MeteoBlock(rD, ThreadKey(t), TZ_CACHE),
                "open-meteo-geo")
ThrReverse(t, rR) ==
    ThrProvider(t, "open-meteo-geo",
                ReverseBlock(rR, ThreadKey(t), TZ_CACHE), "box")

\* lines 225-233: the bounding box, else None
ThrBox(t) ==
    /\ t_pc[t] = "box"
    /\ LET r == BoxBlock(t_arg[t][1], t_arg[t][2], ThreadKey(t), TZ_CACHE)
       IN  ThrFinish(t, r, IF r.ret.some THEN "box" ELSE "none")

ThrRest == <<locationiq_key, GEO_CACHE, last, geo_origin, t_arg, selvars,
             cmpvars, fmtvars, latervars>>

ThrNext ==
    \/ \E t \in Threads : ThrCheck(t) /\ UNCHANGED ThrRest
    \/ \E t \in Threads, rK \in KeyedResponses :
           ThrKeyed(t, rK) /\ UNCHANGED ThrRest
    \/ \E t \in Threads, rC \in TimeApiResponses :
           ThrTimeApi(t, rC) /\ UNCHANGED ThrRest
    \/ \E t \in Threads, rD \in MeteoResponses :
           ThrMeteo(t, rD) /\ UNCHANGED ThrRest
    \/ \E t \in Threads, rR \in ReverseResponses :
           ThrReverse(t, rR) /\ UNCHANGED ThrRest
    \/ \E t \in Threads : ThrBox(t) /\ UNCHANGED ThrRest

SpecThreads == ThrInit /\ [][ThrNext]_vars

\* both requests ended, and they resolved the same coordinate key
BothDone == \A t \in Threads : t_pc[t] = "done"
SameKey == ThreadKey(1) = ThreadKey(2)
\* request t obtained a result from a step after the cache check
Resolved(t) ==
    t_ret[t].end = "return" /\ t_ret[t].ret.some /\ t_ret[t].by # "cache"
ValueOf(t) == TzEntry(t_ret[t].ret.timeZone, t_ret[t].ret.offset)

\* C17: when two requests resolve the same uncached key at the same time,
\* then in every interleaving the cache entry of that key is, after both
\* ended, the complete (timezone id, offset) one of them obtained, and it is
\* present when at least one of them obtained a result.
C17_RaceLeavesCompleteValue ==
    (BothDone /\ SameKey) =>
        /\ (\E t \in Threads : Resolved(t)) => TZ_CACHE[ThreadKey(1)].present
        /\ TZ_CACHE[ThreadKey(1)].present =>
               \E t \in Threads :
                   Resolved(t) /\ TZ_CACHE[ThreadKey(1)] = ValueOf(t)

\* C17 witness: both requests missed the cache, both called providers and
\* obtained different results for the same key; the entry is the complete
\* result of the first request, which wrote last.
C17_Witness ==
    /\ BothDone /\ SameKey
    /\ Resolved(1) /\ Resolved(2)
    /\ t_ret[1].ret.timeZone # t_ret[2].ret.timeZone
    /\ t_ret[1].ret.offset # t_ret[2].ret.offset
    /\ TZ_CACHE[ThreadKey(1)] = ValueOf(1)

(***************************************************************************)
(* Resolvers: the order of the provider attempts                           *)
(***************************************************************************)
GeoOrder == <<"locationiq", "nominatim", "open-meteo">>
TzOrder == <<"locationiq", "timeapi", "open-meteo-tz", "open-meteo-geo">>
\* the providers of a chain in priority order, the keyed one only when
\* a key is configured
Chain(order) == IF locationiq_key THEN order ELSE Tail(order)
IsPrefix(s, t) ==
    Len(s) <= Len(t) /\ \A i \in 1..Len(s) : s[i] = t[i]
LastAttempted == last.calls[Len(last.calls)]

\* C18: within one call each provider is attempted at most once and in the
\* fixed priority order (the attempts are an initial part of the chain); a
\* provider is attempted only after every earlier step failed (the
\* unauthenticated providers only on a cache miss; the bounding box and
\* the not-found result only after the whole chain), and no provider is
\* attempted after the step that ended the call.
C18_OrderedAttemptsAtMostOnce ==
    /\ GeoCalled =>
          /\ IsPrefix(last.calls, Chain(GeoOrder))
          /\ last.by = "cache" => (last.hit /\ IsPrefix(last.calls, <<"locationiq">>))
          /\ last.hit => \A i \in 1..Len(last.calls) : last.calls[i] = "locationiq"
          /\ last.by = "none" => last.calls = Chain(GeoOrder)
    /\ TzCalled =>
          /\ IsPrefix(last.calls, Chain(TzOrder))
          /\ last.hit <=> last.by = "cache"
          /\ last.hit => last.calls = <<>>
          /\ last.by \in {"box", "none"} => last.calls = Chain(TzOrder)
    /\ last.by \in GeoProviders \cup TzProviders =>
          last.calls # <<>> /\ LastAttempted = last.by

\* C18 witness: with a keyed provider configured a timezone call tried the
\* four providers once each, in order, and was answered by the bounding box.
C18_Witness ==
    /\ TzCalled /\ locationiq_key
    /\ last.calls = TzOrder
    /\ last.by = "box"

\* the keyed provider was the only one attempted and it failed with a
\* transport or status error or returned an empty result set
KeyedGaveNothing ==
    /\ last.calls = <<"locationiq">>
    /\ last.resp.kind \in {"http_error", "empty"}

\* C19: with a keyed provider configured, geocode_location attempts the
\* keyed provider first in every call, also for a cached query; a call is
\* answered from the cache only after the keyed provider failed or returned
\* an empty result set, and then the cached value is returned and no
\* unauthenticated provider is called.
C19_KeyedFirstThenCache ==
    (GeoCalled /\ locationiq_key) =>
        /\ last.calls # <<>> /\ last.calls[1] = "locationiq"
        /\ last.by = "cache" => (last.hit /\ KeyedGaveNothing)
        /\ (last.hit /\ KeyedGaveNothing) =>
              /\ last.by = "cache" /\ last.end = "return"
              /\ last.geo = GeoFromCache(last.location, GEO_CACHE)
        /\ last.hit =>
              \A i \in 1..Len(last.calls) : last.calls[i] = "locationiq"

\* C19 witness: the query was cached, the keyed provider was asked and
\* returned an empty result set, and the cached value was returned.
C19_Witness ==
    /\ GeoCalled /\ locationiq_key /\ last.hit
    /\ last.calls = <<"locationiq">> /\ last.resp.kind = "empty"
    /\ last.by = "cache" /\ last.geo.some

\* C20: write-through.  When geocode_location returns a result obtained
\* from a provider, the geocoding cache holds that result's latitude and
\* longitude under the query string; when timezone_for_coords returns a
\* result from a step after the cache check, the bounding box included,
\* the timezone cache holds that timezone id and offset under the
\* coordinate key.
C20_WriteThrough ==
    /\ (GeoCalled /\ last.end = "return" /\ last.by \in GeoProviders) =>
          /\ GEO_CACHE[last.location].present
          /\ GEO_CACHE[last.location].lat = last.geo.latitude
          /\ GEO_CACHE[last.location].lon = last.geo.longitude
    /\ (TzCalled /\ last.end = "return" /\ last.tz.some
        /\ last.by # "cache") =>
          TZ_CACHE[LastKey] = TzEntry(last.tz.timeZone, last.tz.offset)

\* C20 witness: a call for the corner of the box, with every provider
\* failing, was answered by the bounding-box step and its answer is cached.
C20_Witness ==
    /\ TzCalled /\ last.by = "box"
    /\ <<last.lat, last.lon>> = Corner
    /\ TZ_CACHE[LastKey] = TzEntry("Asia/Kolkata", "+05:30")

\* timezone_for_coords reported NotFound: it returned None
TzNotFound == last.end = "return" /\ ~last.tz.some

\* C21: timezone_for_coords reports NotFound exactly when the coordinate
\* key is not cached, every provider step fails and the coordinates lie
\* outside the box 6.0..37.5 by 68.0..98.0.
C21_NotFoundExactlyWhen ==
    TzCalled =>
        (TzNotFound <=> (/\ ~last.hit
                         /\ AllProvidersFailed(TzProviders)
                         /\ ~InBox(last.lat, last.lon)))

\* The same for the calls out of which no exception escapes: then the
\* equivalence holds.
NotFoundExactlyWhenNoneRaises ==
    (TzCalled /\ last.end = "return") =>
        (TzNotFound <=> (/\ ~last.hit
                         /\ AllProvidersFailed(TzProviders)
                         /\ ~InBox(last.lat, last.lon)))

(***************************************************************************)
(* One provider step of timezone_for_coords on its own: SpecStep           *)
(*                                                                         *)
(* The keyed step (lines 127-157) and the reverse-geocode step (lines      *)
(* 197-224) are functions of the provider's answer; they are applied here   *)
(* to every answer of a bounded family of response shapes, for New Delhi's  *)
(* coordinates and an empty cache.                                         *)
(***************************************************************************)
KeyedShapes ==
    {KeyedData("ok", tzf, zn, tZ, uo, o, gmt, raw) :
        tzf \in {NoTzField, TzString("Europe/Paris"),
                 TzObject("Asia/Kolkata", None),
                 TzObject(None, "Asia/Kolkata")},
        zn \in {None, "Europe/Paris"}, tZ \in {None, "Europe/Paris"},
        uo \in {None, "+05:30"}, o \in {None, "+01:00"},
        gmt \in {NoSec, Sec(0), Sec(3600), Sec(-18000)},
        raw \in {NoSec, Sec(0), Sec(3600), Sec(-18000)}}
    \cup {KeyedFail("http_error"), KeyedFail("malformed")}
ReverseShapes ==
    {ReverseData("ok", tz, zi) :
        tz \in {None, "Asia/Kolkata", "Europe/Paris", "Europe/London"},
        zi \in {NoSec, Sec(0), Sec(3600), Sec(19800)}}
    \cup {ReverseData("non200", None, NoSec),
          ReverseData("http_error", None, NoSec),
          ReverseData("malformed", None, NoSec)}

StepKey == CoordinateKey(Delhi[1], Delhi[2])
StepCache == [k \in CoordKeys |-> TzAbsent]
StepPending == [end |-> "pending", ret |-> TzNone, cache |-> StepCache]

StepInit ==
    /\ \/ st_keyed \in KeyedShapes /\ st_reverse = ReverseNoCall
       \/ st_keyed = KeyedNoCall /\ st_reverse \in ReverseShapes
    /\ st_ret = StepPending
    /\ fmt_seconds = 0
    /\ fmt_ret = None
    /\ r_world = 0
    /\ r_runs = <<>>
    /\ f_subs = <<>>
    /\ f_now2 = 0
    /\ f_ret = 0
    /\ b_in = NoBirthInput
    /\ res_calls = <<>>
    /\ periods = <<>>
    /\ periods_is_list = TRUE
    /\ birth_dt = NoBirth
    /\ now = 0
    /\ sel_pc = "done"
    /\ sel_ret = Pending
    /\ locationiq_key = TRUE
    /\ GEO_CACHE = <<>>
    /\ TZ_CACHE = <<>>
    /\ last = None
    /\ geo_origin = <<>>
    /\ pc = "idle"
    /\ b = NoBirthInput
    /\ chart_calls = <<>>
    /\ outcome = "none"
    /\ t_pc = <<>>
    /\ t_arg = <<>>
    /\ t_ret = <<>>

\* lines 127-157 applied to the answer st_keyed
KeyedStep ==
    /\ st_ret = StepPending
    /\ st_keyed # KeyedNoCall
    /\ st_ret' = KeyedBlock(st_keyed, StepKey, StepCache)
    /\ UNCHANGED <<st_keyed, st_reverse>>

\* lines 197-224 applied to the answer st_reverse
ReverseStep ==
    /\ st_ret = StepPending
    /\ st_reverse # ReverseNoCall
    /\ st_ret' = ReverseBlock(st_reverse, StepKey, StepCache)
    /\ UNCHANGED <<st_keyed, st_reverse>>

StepNext ==
    \/ KeyedStep
       /\ UNCHANGED <<selvars, geovars, cmpvars, fmtvars, thrvars, factvars,
                      repvars>>
    \/ ReverseStep
       /\ UNCHANGED <<selvars, geovars, cmpvars, fmtvars, thrvars, factvars,
                      repvars>>

SpecStep == StepInit /\ [][StepNext]_vars

(***************************************************************************)
(* The keyed and the reverse-geocode step: what the claims speak about     *)
(***************************************************************************)
KeyedDone == st_ret # StepPending /\ st_keyed # KeyedNoCall
ReverseDone == st_ret # StepPending /\ st_reverse # ReverseNoCall
\* the step succeeded: it returned a result and cached it under the key
StepAccepted ==
    /\ st_ret.end = "return" /\ st_ret.ret.some
    /\ st_ret.cache[StepKey] =
           TzEntry(st_ret.ret.timeZone, st_ret.ret.offset)

\* the answer names a zone: as a direct field or as a nested object
HasZone(d) ==
    IF d.timezone.isdict
    THEN Truthy(d.timezone.name) \/ Truthy(d.timezone.zone_name)
    ELSE Truthy(d.timezone.s) \/ Truthy(d.zone_name) \/ Truthy(d.timeZone)
\* the answer carries the offset as a string
HasOffsetString(d) == Truthy(d.utc_offset) \/ Truthy(d.offset)
\* the answer's raw seconds
RawSeconds(d) == IF d.gmt_offset.has THEN d.gmt_offset ELSE d.raw_offset

\* C22: in the keyed step an answer that carries a zone name and an offset
\* in any supported shape is accepted, cached and returned, and an offset
\* that comes as raw seconds is returned as format_offset(seconds), for
\* every integer number of seconds, zero included.
C22_KeyedShapesAccepted ==
    (/\ KeyedDone /\ st_keyed.kind = "ok" /\ HasZone(st_keyed)
     /\ (HasOffsetString(st_keyed) \/ RawSeconds(st_keyed).has))
        => /\ StepAccepted
           /\ ~HasOffsetString(st_keyed) =>
                 st_ret.ret.offset = format_offset(RawSeconds(st_keyed).v)

\* C23 as stated: once the reverse geocode gave an advisory timezone id the
\* step succeeds; the offset is +05:30 for Asia/Kolkata, and it is +00:00
\* only when the time-zone database cannot compute an offset for the id
\* and the id is not Asia/Kolkata.
C23_ZeroOnlyWhenDatabaseFails ==
    (ReverseDone /\ st_reverse.kind = "ok" /\ Truthy(st_reverse.tz)) =>
        /\ StepAccepted
        /\ st_ret.ret.timeZone = st_reverse.tz
        /\ st_reverse.tz = "Asia/Kolkata" => st_ret.ret.offset = "+05:30"
        /\ st_ret.ret.offset = "+00:00" =>
              (~st_reverse.zi.has /\ st_reverse.tz # "Asia/Kolkata")

\* C23 amended: the step succeeds; the offset is +05:30 for Asia/Kolkata;
\* for another id it is the formatted offset the time-zone database
\* computes, and +00:00 when the database cannot compute one.  So +00:00
\* is returned only for an id other than Asia/Kolkata, when the database
\* fails or when the offset it computes is itself formatted as +00:00.
C23_ZeroWhenDatabaseFailsOrSaysZero ==
    (ReverseDone /\ st_reverse.kind = "ok" /\ Truthy(st_reverse.tz)) =>
        /\ StepAccepted
        /\ st_ret.ret.timeZone = st_reverse.tz
        /\ st_reverse.tz = "Asia/Kolkata" => st_ret.ret.offset = "+05:30"
        /\ (st_reverse.tz # "Asia/Kolkata" /\ st_reverse.zi.has) =>
              st_ret.ret.offset = format_offset(st_reverse.zi.v)
        /\ (st_reverse.tz # "Asia/Kolkata" /\ ~st_reverse.zi.has) =>
              st_ret.ret.offset = "+00:00"
        /\ st_ret.ret.offset = "+00:00" =>
              /\ st_reverse.tz # "Asia/Kolkata"
              /\ \/ ~st_reverse.zi.has
                 \/ format_offset(st_reverse.zi.v) = "+00:00"

\* C23 witness: the database does not know the id Europe/Paris, and the
\* step returned and cached +00:00 for it.
C23_Witness ==
    /\ ReverseDone /\ st_reverse = ReverseData("ok", "Europe/Paris", NoSec)
    /\ StepAccepted
    /\ st_ret.ret = TzDict("Europe/Paris", "+00:00")

(***************************************************************************)
(* compute: which resolver is asked, and what resolution may replace       *)
(***************************************************************************)
\* this step of the request invoked the resolver `name`
Invokes(name) == res_calls' = Append(res_calls, name)
CompleteCoordinates(x) == x.latitude.has /\ x.longitude.has

\* C24: in compute an offset the birth record supplies is never replaced;
\* the Timezone Resolver is invoked only when the offset is still absent
\* after the advisory-timezone step and both coordinates are known; the
\* Geocoding Resolver is invoked only when location text is present and a
\* coordinate is missing, so a supplied complete coordinate pair is never
\* replaced.
C24_ResolversOnlyFillWhatIsMissing ==
    [][/\ Truthy(b_in'.timezone) => b'.timezone = b_in'.timezone
       /\ Truthy(b.timezone) /\ pc # "idle" => b'.timezone = b.timezone
       /\ Invokes("timezone") =>
             /\ pc = "timezone"
             /\ ~Truthy(b.timezone) /\ CompleteCoordinates(b)
             /\ last'.op = "timezone"
             /\ last'.lat = b.latitude.v /\ last'.lon = b.longitude.v
       /\ Invokes("geocode") =>
             /\ pc = "geocode" /\ b = b_in
             /\ Truthy(b.location) /\ ~CompleteCoordinates(b)
             /\ last'.op = "geocode" /\ last'.location = b.location
       /\ CompleteCoordinates(b_in') =>
             /\ b'.latitude = b_in'.latitude
             /\ b'.longitude = b_in'.longitude
             /\ \A i \in 1..Len(res_calls') : res_calls'[i] # "geocode"
       /\ geovars' # geovars => Invokes("timezone") \/ Invokes("geocode")
      ]_vars

\* C24 witness: the record came with an offset and a location but without
\* coordinates; the geocoder filled the coordinates, the Timezone Resolver
\* was not asked, and the charts were computed with the supplied offset.
C24_Witness ==
    /\ outcome = "200"
    /\ Truthy(b_in.timezone) /\ ~CompleteCoordinates(b_in)
    /\ res_calls = <<"geocode">>
    /\ CompleteCoordinates(b) /\ b.timezone = b_in.timezone

\* C25: when the Geocoding Resolver is invoked and reports NotFound the
\* request ends at once with a resolution failure: the Timezone Resolver
\* is not called afterwards, the coordinates of the birth record are not
\* set, and no chart computation is attempted.
C25_GeocodeNotFoundIsTerminal ==
    /\ (/\ res_calls # <<>> /\ res_calls[1] = "geocode"
        /\ last.op = "geocode" /\ last.end = "return" /\ ~last.geo.some)
         => /\ outcome = "400 Could not geocode location"
            /\ pc = "idle"
            /\ res_calls = <<"geocode">>
            /\ b = b_in
            /\ chart_calls = <<>>
    /\ outcome = "400 Could not geocode location" =>
            /\ res_calls = <<"geocode">>
            /\ last.op = "geocode" /\ last.end = "return" /\ ~last.geo.some
            /\ b = b_in /\ ~CompleteCoordinates(b)
            /\ chart_calls = <<>>

\* C25 witness: a request with a location and no coordinates ended with
\* "Could not geocode location" after the geocoder found nothing.
C25_Witness ==
    /\ outcome = "400 Could not geocode location"
    /\ res_calls = <<"geocode">>
    /\ Truthy(b_in.location) /\ ~last.geo.some

(***************************************************************************)
(* Period Selector: the last-resort default, malformed entries, the frame  *)
(***************************************************************************)
\* C27: when the birth-instant filter discards every period of a non-empty
\* input, the selector returns the first element of the original input,
\* although that element ends before the birth instant.
C27_AllDiscardedGivesFirst ==
    /\ (/\ SelDone /\ BirthGiven /\ periods # <<>>
        /\ \A i \in Idx : WellFormed(i) /\ PreBirth(i))
         => Returned(1) /\ PreBirth(1)
    /\ (/\ SelDone /\ BirthGiven /\ Survivors = {}
        /\ \E i \in Idx : WellFormed(i) /\ PreBirth(i))
         => Returned(1)

\* C27 witness: both periods end before the birth instant, the second one
\* starts earlier, and the first one is returned.
C27_Witness ==
    /\ SelDone /\ BirthGiven /\ Len(periods) = 2
    /\ WellFormed(1) /\ PreBirth(1) /\ WellFormed(2) /\ PreBirth(2)
    /\ StartOf(2) < StartOf(1)
    /\ Returned(1)

\* the indices of the well-formed entries of periods[i..], in input order
RECURSIVE WellFormedFrom(_)
WellFormedFrom(i) ==
    IF i > Len(periods) THEN <<>>
    ELSE (IF WellFormed(i) THEN <<i>> ELSE <<>>) \o WellFormedFrom(i + 1)
\* the input with every malformed entry removed
WithoutMalformed ==
    [k \in 1..Len(WellFormedFrom(1)) |-> periods[WellFormedFrom(1)[k]]]

C30_ReturnsAnElementAndKeepsInput ==
    [][(sel_pc = "build" /\ sel_pc' = "done" /\ periods_is_list) =>
          /\ periods' = periods
          /\ ~sel_ret'.raised
          /\ sel_ret'.idx # 0 => sel_ret'.idx \in 1..Len(periods)
      ]_vars

\* C30 witness: a list of two periods was searched and its second element
\* returned.
C30_Witness ==
    /\ SelDone /\ Len(periods) = 2
    /\ Returned(2) /\ WellFormed(1) /\ WellFormed(2)

(***************************************************************************)
(* Fact Extractor, dasha part: analyze.py lines 110-117                    *)
(*                                                                         *)
(* `periods` is dasha.get("dasha_periods"); periods_is_list is false when  *)
(* dasha is not a dict or the value is not a list (maha is None either     *)
(* way).  f_subs[i] is periods[i].get("antardasha").  Each of the two      *)
(* calls of _current_period takes its own datetime.now: now, then f_now2.  *)
(***************************************************************************)
\* the value under `antardasha`: a list of periods, or not a list (the
\* key is missing)
SubList(l) == [islist |-> TRUE, list |-> l]
NoSubList == [islist |-> FALSE, list |-> <<>>]
SubLists ==
    {NoSubList, SubList(<<>>),
     SubList(<<Period(Naive(0), Naive(0)), Period(Naive(0), Naive(2))>>),
     SubList(<<Period(Naive(1), Naive(2)), Period(Naive(0), Naive(1))>>),
     SubList(<<Period(BadTs, Naive(0))>>)}
MajorEntries ==
    {Period(Naive(0), Naive(1)), Period(Naive(1), Naive(2)),
     Period(BadTs, Naive(0)), NonDict}

NoPeriod == [raised |-> FALSE, idx |-> 0]
FactsPending ==
    [raised |-> FALSE, maha |-> -1, antar |-> -1, mahadasha |-> -1,
     antardasha |-> -1]

\* mutant of extract_dasha: the second call is made without birth_dt
extract_dasha_unfiltered(islist, ps, subs, bd, n1, n2) ==
    LET maha == CurrentPeriod(islist, ps, bd, n1)
        maha_dict == ~maha.raised /\ maha.idx # 0 /\ ps[maha.idx].isdict
        sub == IF maha_dict THEN subs[maha.idx] ELSE NoSubList
        antar == IF maha_dict
                 THEN CurrentPeriod(sub.islist, sub.list, NoBirth, n2)
                 ELSE NoPeriod
        antar_dict == ~antar.raised /\ antar.idx # 0
                      /\ sub.list[antar.idx].isdict
    IN  [raised |-> maha.raised \/ antar.raised,
         maha |-> maha.idx, antar |-> antar.idx,
         mahadasha |-> IF maha_dict THEN maha.idx ELSE 0,
         antardasha |-> IF antar_dict THEN antar.idx ELSE 0]

\* lines 112-115: maha, antar, and the two reported periods (0: None);
\* a period is given by its position in the list it was taken from
extract_dasha(islist, ps, subs, bd, n1, n2) ==
    LET maha == CurrentPeriod(islist, ps, bd, n1)
        maha_dict == ~maha.raised /\ maha.idx # 0 /\ ps[maha.idx].isdict
        sub == IF maha_dict THEN subs[maha.idx] ELSE NoSubList
        antar == IF maha_dict
                 THEN CurrentPeriod(sub.islist, sub.list, bd, n2)
                 ELSE NoPeriod
        antar_dict == ~antar.raised /\ antar.idx # 0
                      /\ sub.list[antar.idx].isdict
    IN  [raised |-> maha.raised \/ antar.raised,
         maha |-> maha.idx, antar |-> antar.idx,
         mahadasha |-> IF maha_dict THEN maha.idx ELSE 0,
         antardasha |-> IF antar_dict THEN antar.idx ELSE 0]

\* the kundli handed to _extract_facts; everything else stays idle
FactsInit ==
    /\ periods = <<>>
    /\ f_subs = <<>>
    /\ periods_is_list \in BOOLEAN
    \* birth_dt of lines 86-93: None when the date cannot be parsed
    /\ birth_dt \in {NoBirth, Naive(1), Naive(2)}
    /\ now \in Instants
    \* the clock at the second call: not before the first
    /\ f_now2 \in {now, IF now < MaxT THEN now + 1 ELSE now}
    /\ sel_pc = "build"
    /\ sel_ret = Pending
    /\ f_ret = FactsPending
    /\ locationiq_key = FALSE
    /\ GEO_CACHE = <<>>
    /\ TZ_CACHE = <<>>
    /\ last = None
    /\ geo_origin = <<>>
    /\ pc = "idle"
    /\ b = NoBirthInput
    /\ b_in = NoBirthInput
    /\ res_calls = <<>>
    /\ chart_calls = <<>>
    /\ outcome = "none"
    /\ fmt_seconds = 0
    /\ fmt_ret = Unformatted
    /\ st_keyed = 0
    /\ st_reverse = 0
    /\ st_ret = 0
    /\ r_world = 0
    /\ r_runs = <<>>
    /\ t_pc = <<>>
    /\ t_arg = <<>>
    /\ t_ret = <<>>

\* the provider's answer holds one more major period m with sub-periods s
AddMajor(m, s) ==
    /\ sel_pc = "build"
    /\ periods_is_list
    /\ Len(periods) < MaxPeriods
    /\ ~m.isdict => s = NoSubList
    /\ periods' = Append(periods, m)
    /\ f_subs' = Append(f_subs, s)
    /\ UNCHANGED <<periods_is_list, birth_dt, now, sel_pc, sel_ret, f_now2,
                   f_ret>>

\* lines 111-115 of _extract_facts
ExtractFacts ==
    /\ sel_pc = "build"
    /\ f_ret' = extract_dasha(periods_is_list, periods, f_subs, birth_dt,
                              now, f_now2)
    /\ sel_pc' = "done"
    /\ UNCHANGED <<periods, periods_is_list, birth_dt, now, sel_ret, f_subs,
                   f_now2>>

FactsNext ==
    \/ \E m \in MajorEntries, s \in SubLists :
           AddMajor(m, s)
           /\ UNCHANGED <<geovars, cmpvars, fmtvars, thrvars, stepvars,
                          repvars>>
    \/ ExtractFacts
       /\ UNCHANGED <<geovars, cmpvars, fmtvars, thrvars, stepvars, repvars>>

SpecFacts == FactsInit /\ [][FactsNext]_vars

(***************************************************************************)
(* Fact Extractor: what the claim speaks about                             *)
(***************************************************************************)
FactsDone == sel_pc = "done" /\ f_ret # FactsPending
\* entry k of the list l can be read, and does not end before birth
WellFormedIn(l, k) ==
    /\ l[k].isdict
    /\ l[k].start.kind \in {"naive", "aware"}
    /\ l[k].end.kind \in {"naive", "aware"}
SurvivesIn(l, k) ==
    /\ WellFormedIn(l, k)
    /\ BirthGiven => ToUTC(l[k].end) >= ToUTC(birth_dt)
SurvivorsIn(l) == {k \in 1..Len(l) : SurvivesIn(l, k)}
\* the sub-period list of the reported major period
ReportedSubs == f_subs[f_ret.mahadasha]

\* C26: the Fact Extractor takes the major period from the top-level list
\* and the sub-period only from the sub-period list of that major period,
\* with the same birth-instant filter: a reported sub-period is a child of
\* the reported major period, no sub-period is reported when no major
\* period is selected, and when a sub-period of the selected major period
\* survives the birth-instant filter the reported one is such a survivor.
C26_SubPeriodOfSelectedMajor ==
    FactsDone =>
        /\ ~f_ret.raised
        /\ f_ret.mahadasha # 0 =>
              /\ f_ret.mahadasha \in 1..Len(periods)
              /\ Survivors # {} => f_ret.mahadasha \in Survivors
        /\ f_ret.mahadasha = 0 => f_ret.antardasha = 0
        /\ f_ret.antardasha # 0 =>
              /\ f_ret.mahadasha # 0
              /\ ReportedSubs.islist
              /\ f_ret.antardasha \in 1..Len(ReportedSubs.list)
        /\ (/\ f_ret.mahadasha # 0 /\ ReportedSubs.islist
            /\ SurvivorsIn(ReportedSubs.list) # {})
             => f_ret.antardasha \in SurvivorsIn(ReportedSubs.list)

\* C26 witness: the first sub-period of the selected major period ended
\* before birth although it contains the clock's instant; the second one
\* is reported.
C26_Witness ==
    /\ FactsDone /\ BirthGiven
    /\ f_ret.mahadasha # 0 /\ f_ret.antardasha = 2
    /\ Len(ReportedSubs.list) = 2
    /\ ~SurvivesIn(ReportedSubs.list, 1)
    /\ ToUTC(ReportedSubs.list[1].start) <= f_now2
    /\ f_now2 <= ToUTC(ReportedSubs.list[1].end)

(***************************************************************************)
(* The same birth record resolved repeatedly in one process: SpecRepeat    *)
(*                                                                         *)
(* The providers are deterministic: r_world fixes, once and for all, what  *)
(* each provider answers to the request the resolution sends it, and what  *)
(* the time-zone database gives for the advisory timezone id at the birth  *)
(* date.  The birth record carries the location text only.                 *)
(***************************************************************************)
RepBirth == BirthInput(None, NoFloat, NoFloat, "Paris")

\* compute.py lines 20-32 (and the handlers of 41-44) for the birth record
\* x, the geocoding cache gc and the provider answers w: how the step ends,
\* the birth record and the cache after it, and whether the offset was
\* taken from the advisory timezone id
resolve_geocode(x, key, gc, w) ==
    LET g == geocode_location(x.location, key, gc, w.gK, w.gA, w.gB)
        off == offset_from_tzid(g.ret.timezone, w.z)
        advisory == ~Truthy(x.timezone) /\ Truthy(g.ret.timezone)
                    /\ Truthy(off)
    IN  IF ~((~x.latitude.has \/ ~x.longitude.has) /\ Truthy(x.location))
        THEN [end |-> "go on", b |-> x, cache |-> gc, via |-> "none"]
        ELSE IF g.end = "raise"
        THEN [end |-> "400 Location resolution failed", b |-> x,
              cache |-> g.cache, via |-> "none"]
        ELSE IF ~g.ret.some
        THEN [end |-> "400 Could not geocode location", b |-> x,
              cache |-> g.cache, via |-> "none"]
        ELSE [end |-> "go on",
              b |-> [x EXCEPT !.latitude = Float(g.ret.latitude),
                              !.longitude = Float(g.ret.longitude),
                              !.timezone = IF advisory THEN off ELSE @],
              cache |-> g.cache,
              via |-> IF advisory THEN "advisory" ELSE "none"]

\* compute.py lines 33-40 (and the handlers of 41-44) for the birth record
\* x as the geocoding step left it, and the timezone cache tc
resolve_timezone(x, key, tc, w) ==
    LET t == timezone_for_coords(x.latitude.v, x.longitude.v, key, tc,
                                 w.tK, w.tC, w.tD, w.tR)
    IN  IF ~(~Truthy(x.timezone) /\ x.latitude.has /\ x.longitude.has)
        THEN [end |-> IF Truthy(x.timezone) THEN "resolved"
                      ELSE "400 timezone_unresolved",
              b |-> x, cache |-> tc, via |-> "none"]
        ELSE IF t.end = "raise"
        THEN [end |-> "400 Location resolution failed", b |-> x,
              cache |-> t.cache, via |-> "none"]
        ELSE IF t.ret.some /\ Truthy(t.ret.offset)
        THEN [end |-> "resolved", b |-> [x EXCEPT !.timezone = t.ret.offset],
              cache |-> t.cache, via |-> "resolver"]
        ELSE [end |-> "400 timezone_unresolved", b |-> x,
              cache |-> t.cache, via |-> "none"]

\* The process starts with empty caches.  r_world: per provider one of a few
\* answers, failures among them (gK, gA, gB: LocationIQ, Nominatim and
\* Open-Meteo geocoding; z: the time-zone database for gB's timezone id at
\* the birth date; tK, tC, tD, tR: LocationIQ, timeapi.io, Open-Meteo
\* timezone and the reverse geocode).
RepInit ==
    /\ locationiq_key \in BOOLEAN
    /\ \E gK \in (IF locationiq_key
                  THEN {GeoHttpError,
                        GeoResp("ok", Delhi, "New Delhi, India", None)}
                  ELSE {GeoNoCall}),
          gA \in {GeoHttpError, GeoMalformed,
                  GeoResp("ok", Paris, None, None)},
          gB \in {GeoHttpError, GeoEmpty} \cup GeoOk,
          tK \in (IF locationiq_key
                  THEN {KeyedFail("http_error"),
                        KeyedData("ok", NoTzField, "Europe/Paris", None,
                                  None, None, Sec(3600), NoSec)}
                  ELSE {KeyedNoCall}),
          tC \in {TimeApiData("http_error", None, NoSec, NoSec),
                  TimeApiData("malformed", None, NoSec, NoSec),
                  TimeApiData("ok", "Europe/Paris", NoSec, Sec(3600)),
                  TimeApiData("ok", "Asia/Kolkata", Sec(19800),
                              Sec(19800))},
          tD \in {MeteoData("http_error", None, NoSec),
                  MeteoData("ok", "Europe/Paris", Sec(3600))},
          tR \in {ReverseData("http_error", None, NoSec),
                  ReverseData("ok", "Europe/Paris", NoSec),
                  ReverseData("ok", None, NoSec)} :
          \E z \in (IF gB.kind = "ok" /\ Truthy(gB.tz)
                     THEN ZoneAnswers(gB.tz) ELSE {NoSec}) :
              r_world = [gK |-> gK, gA |-> gA, gB |-> gB, z |-> z,
                         tK |-> tK, tC |-> tC, tD |-> tD, tR |-> tR]
    /\ r_runs = <<>>
    /\ GEO_CACHE = [q \in Locations |-> GeoAbsent]
    /\ TZ_CACHE = [k \in CoordKeys |-> TzAbsent]
    /\ last = NoCall
    /\ geo_origin = [q \in Locations |-> GeoNone]
    /\ pc = "idle"
    /\ b = NoBirthInput
    /\ b_in = NoBirthInput
    /\ res_calls = <<>>
    /\ chart_calls = <<>>
    /\ outcome = "none"
    /\ fmt_seconds = 0
    /\ fmt_ret = Unformatted
    /\ st_keyed = 0
    /\ st_reverse = 0
    /\ st_ret = 0
    /\ f_subs = <<>>
    /\ f_now2 = 0
    /\ f_ret = 0
    /\ t_pc = <<>>
    /\ t_arg = <<>>
    /\ t_ret = <<>>
    /\ periods = <<>>
    /\ periods_is_list = TRUE
    /\ birth_dt = NoBirth
    /\ now = 0
    /\ sel_pc = "done"
    /\ sel_ret = Pending

\* one more request resolves the same birth record (lines 19-44)
Resolve ==
    /\ Len(r_runs) < MaxRuns
    /\ \E g \in {resolve_geocode(RepBirth, locationiq_key, GEO_CACHE,
                                  r_world)} :
       \E t \in {IF g.end = "go on"
                 THEN resolve_timezone(g.b, locationiq_key, TZ_CACHE,
                                       r_world)
                 ELSE [end |-> g.end, b |-> g.b, cache |-> TZ_CACHE,
                       via |-> "none"]} :
           /\ GEO_CACHE' = g.cache
           /\ TZ_CACHE' = t.cache
           /\ r_runs' = Append(r_runs,
                  [outcome |-> t.end, latitude |-> t.b.latitude,
                   longitude |-> t.b.longitude, timezone |-> t.b.timezone,
                   via |-> IF t.end = "resolved" /\ g.via = "advisory"
                           THEN "advisory" ELSE t.via])
    /\ UNCHANGED <<locationiq_key, last, geo_origin, r_world>>

RepNext ==
    Resolve /\ UNCHANGED <<selvars, cmpvars, fmtvars, thrvars, stepvars,
                            factvars>>

SpecRepeat == RepInit /\ [][RepNext]_vars

(***************************************************************************)
(* Repeated resolution: what the claim speaks about                        *)
(***************************************************************************)
Runs == 1..Len(r_runs)
SameResolution(i, j) ==
    /\ r_runs[i].outcome = r_runs[j].outcome
    /\ r_runs[i].latitude = r_runs[j].latitude
    /\ r_runs[i].longitude = r_runs[j].longitude
    /\ r_runs[i].timezone = r_runs[j].timezone

\* C29: with providers that answer the same request with the same
\* response, resolving the same birth record (location text only) twice in
\* one process yields the same coordinates and the same offset both times,
\* whether the second resolution is served by providers or by the cache.
C29_ResolutionRepeatable ==
    \A i \in Runs, j \in Runs : SameResolution(i, j)

\* Two resolutions differ only when the earlier one took its offset from
\* the advisory timezone id of the geocoder, which the cache does not keep.
RepeatableUnlessAdvisoryTimezone ==
    \A i \in Runs, j \in Runs :
        (i < j /\ ~SameResolution(i, j)) => r_runs[i].via = "advisory"

====
